---------------------------- MODULE Spec2Model ----------------------------
(***************************************************************************)
(* Model of rfdhcpserverlib/DhcpServerLibrary.py: the lease table          *)
(* (DhcpServerLeaseList), the dnsmasq observer (DnsmasqDhcpServerWrapper), *)
(* the lease wait of the facade (DhcpServerLibrary.wait_lease) and the     *)
(* daemon supervisor (SlaveDhcpServerProcess).                             *)
(*                                                                         *)
(* Two threads act on the observer: the D-Bus main loop thread ("bg"),     *)
(* which runs one signal handler at a time, and the caller thread ("fg").  *)
(* A handler and a multi-statement call are cut into steps at every access *)
(* to state the other thread can see, so the interleavings Python's        *)
(* interpreter allows are the interleavings of the model.                  *)
(***************************************************************************)
EXTENDS Integers, Sequences, FiniteSets, TLC

(***************************************************************************)
(* Values                                                                  *)
(***************************************************************************)
\* Python's None where a string (an IP address, an exception) is expected.
None == "None"

\* Python's None where a MAC address (a sequence of characters) is expected.
NoMac == << >>

\* Python's None where a PID (a positive number) is expected.
NoPid == 0

\* Largest PID the system gives to a process.
MaxPid == 2

Pids == 1 .. MaxPid

\* A timeout argument that was not given (timeout = None); a given timeout n
\* is the one-element sequence <<n>>.
NoTimeout == << >>

\* str.lower() on one character of a MAC address.
LowerChar(c) ==
    CASE c = "A" -> "a"
      [] c = "B" -> "b"
      [] c = "C" -> "c"
      [] c = "D" -> "d"
      [] OTHER   -> c

\* str(mac).lower(): a MAC address is a sequence of characters.
Lower(mac) == [i \in DOMAIN mac |-> LowerChar(mac[i])]

\* The MAC addresses the daemon announces and callers ask for, as written
\* (three spellings of one address, and another address).
RawMacs == { <<"a", "b">>, <<"A", "B">>, <<"A", "b">>, <<"c", "d">> }

IPs == { "192.168.0.130", "192.168.0.131" }

Kinds == { "DhcpLeaseAdded", "DhcpLeaseUpdated", "DhcpLeaseDeleted" }

\* Largest timeout (in clock ticks) a caller gives to wait_lease.
MaxTimeout == 2

\* The timeout argument of wait_lease: absent, negative, zero or positive.
Timeouts == { NoTimeout } \cup { <<n>> : n \in -1 .. MaxTimeout }

(***************************************************************************)
(* DhcpServerLeaseList: a Python dict is a function with a finite domain.  *)
(***************************************************************************)
EmptyDict == [k \in {} |-> None]

\* Variant: reset() leaves the dict as it is.
LeaseListReset_KeepsDict(d) == d

\* reset(): self.leases_dict = {}   (d is the dict bound before the call)
LeaseListReset(d) == EmptyDict

\* Variant: addLease() does not overwrite the entry of a known hw_address.
addLease_KeepsFirst(d, ipv4_address, hw_address) ==
    [k \in DOMAIN d \cup {hw_address} |->
        IF k \in DOMAIN d THEN d[k] ELSE ipv4_address]

\* addLease(): self.leases_dict[hw_address] = ipv4_address
addLease(d, ipv4_address, hw_address) ==
    [k \in DOMAIN d \cup {hw_address} |->
        IF k = hw_address THEN ipv4_address ELSE d[k]]

\* Variant: updateLease() that forgets to store.
updateLease_Drops(d, ipv4_address, hw_address) == d

\* updateLease(): self.addLease(ipv4_address, hw_address)
updateLease(d, ipv4_address, hw_address) == addLease(d, ipv4_address, hw_address)

\* Variant: deleteLease() without its except KeyError clause.
deleteLease_KeyErrorEscapes(d, hw_address) ==
    IF hw_address \in DOMAIN d
    THEN [dict |-> [k \in DOMAIN d \ {hw_address} |-> d[k]],
          exc |-> None, warned |-> FALSE]
    ELSE [dict |-> d, exc |-> "KeyError", warned |-> FALSE]

\* Variant: deleteLease() that leaves the entry in the dict.
deleteLease_KeepsEntry(d, hw_address) ==
    [dict |-> d, exc |-> None, warned |-> hw_address \notin DOMAIN d]

\* deleteLease(hw_address, raise_exceptions = False): del self.leases_dict[..]
\* inside try; KeyError is caught and a warning is logged.  The result is the
\* dict, the exception that leaves the method and whether it logged the warning.
deleteLease(d, hw_address) ==
    IF hw_address \in DOMAIN d
    THEN [dict |-> [k \in DOMAIN d \ {hw_address} |-> d[k]],
          exc |-> None, warned |-> FALSE]
    ELSE [dict |-> d, exc |-> None, warned |-> TRUE]

\* get_ipv4address_for_hwaddress(): the value, or None on KeyError.
get_ipv4address_for_hwaddress(d, hw_address) ==
    IF hw_address \in DOMAIN d THEN d[hw_address] ELSE None

\* to_tuple_list(): self.leases_dict.items()
to_tuple_list(d) == { <<k, d[k]>> : k \in DOMAIN d }

(***************************************************************************)
(* DnsmasqDhcpServerWrapper helpers                                        *)
(***************************************************************************)
\* Variant: the handlers keep hwaddr as the daemon spells it.
HandlerHwaddr_AsSpelled(hwaddr) == hwaddr

\* The handlers' hwaddr = str(hwaddr).lower()
HandlerHwaddr(hwaddr) == Lower(hwaddr)

\* getIpForMac(): mac = str(mac).lower(); lookup.
getIpForMac(d, mac) == get_ipv4address_for_hwaddress(d, Lower(mac))

\* setMacAddrToWatch(): the value stored in _watched_macaddr.
WatchedValue(mac) == Lower(mac)

\* Variant: the handlers set the event for any MAC once a target is stored.
WatchMatches_AnyMac(watched, hwaddr) == TRUE

\* The handlers' test before watched_macaddr_got_lease_event.set().
WatchMatches(watched, hwaddr) == watched = hwaddr

VARIABLES
    leases_dict,          \* contents of the dict self.leases_dict is bound to
    leases_dict_mutex,    \* owner of the lock: "free", "bg" or "fg"
    watched_macaddr,      \* _watched_macaddr
    got_lease_event,      \* watched_macaddr_got_lease_event's flag
    h_pc,                 \* position of the running handler, or "idle"
    h_kind, h_ipaddr, h_hwaddr,   \* the handler's signal and its locals
    h_ref,                \* the dict object the handler loaded: "none", "live", "old"
    h_old,                \* contents of that object once reset() unbound it
    h_exc,                \* exception that left the handler (None: none)
    h_warned,             \* the handler logged deleteLease's warning
    f_pc,                 \* position of the caller thread, or "idle"
    f_mac, f_timeout,     \* arguments of the call in progress
    f_left,               \* clock ticks left of the timeout of Event.wait
    f_result,             \* outcome of the last call that ended
    f_kw,                 \* the keyword that called wait_lease (None: none)
    g_expected,           \* history: per MAC, the IP the events so far leave
    serial_dict,          \* history: the table of the operations in their serial order
    h_clean,              \* history: no setMacAddrToWatch overlapped the handler
    h_event0,             \* history: the flag when the handler was entered
    f_clean,              \* history: no handler step overlapped setMacAddrToWatch
    f_seen,               \* history: an add/update for f_mac was handled during the call
    slave_dhcp_server_pid,  \* SlaveDhcpServerProcess._slave_dhcp_server_pid
    all_processes_pid,    \* SlaveDhcpServerProcess._all_processes_pid
    alive,                \* the PIDs of the processes the system is running
    denied,               \* those of them the caller may not signal (EPERM)
    s_cmds,               \* external commands the last supervisor call ran
    s_result,             \* outcome of the last supervisor call
    lib_ifname,           \* DhcpServerLibrary._ifname
    lib_lease_time,       \* DhcpServerLibrary._lease_time
    slave_dhcp_process,   \* DhcpServerLibrary._slave_dhcp_process (None: none)
    dnsmasq_wrapper,      \* DhcpServerLibrary._dnsmasq_wrapper (None: none)
    dbus_loops,           \* number of D-Bus loop threads that run
    c_pc,                 \* position of the library call in progress, or "idle"
    c_result,             \* outcome of the last library call on the servers
    bus_owner,            \* the bus name uk.org.thekelleys.dnsmasq has an owner
    w_pc,                 \* position of the wrapper's constructor; "none": no
                          \* wrapper object; "live": the constructor has returned
    wait_bus_owner_timeout,   \* __init__'s local, in sleeps of 0.2 s
    w_subscribed,         \* the three lease handlers are connected to the signals
    dbus_loop,            \* self._dbus_loop: "MainLoop" or None
    dbus_loop_thread,     \* self._dbus_loop_thread: "none", "running" or "ended"
    owner_watch,          \* watch_name_owner has installed _handleBusOwnerChanged
    getversion_call,      \* the GetVersion call: "none", "sent" or "answered"
    getversion_unlock_event,  \* self._getversion_unlock_event's flag
    remote_version,       \* self._remote_version
    loop_excs,            \* exceptions raised by callbacks in the loop thread
    w_result              \* outcome of the last call on the wrapper

obs_vars  == << leases_dict, leases_dict_mutex, watched_macaddr, got_lease_event >>
h_locals  == << h_pc, h_kind, h_ipaddr, h_hwaddr >>
h_held    == << h_ref, h_old >>
h_outcome == << h_exc, h_warned >>
bg_vars   == << h_locals, h_held, h_outcome >>
fg_vars   == << f_pc, f_mac, f_timeout, f_left, f_result, f_kw >>
h_hist    == << h_clean, h_event0 >>
hist_vars == << g_expected, serial_dict, h_hist, f_clean, f_seen >>
lease_vars == << obs_vars, bg_vars, fg_vars, hist_vars >>
sup_vars  == << slave_dhcp_server_pid, all_processes_pid, alive, denied, s_cmds,
               s_result >>
lib_vars  == << lib_ifname, lib_lease_time, slave_dhcp_process, dnsmasq_wrapper,
               dbus_loops, c_pc, c_result >>
wrap_vars == << bus_owner, w_pc, wait_bus_owner_timeout, w_subscribed, dbus_loop,
               dbus_loop_thread, owner_watch, getversion_call,
               getversion_unlock_event, remote_version, loop_excs, w_result >>
vars == << lease_vars, sup_vars, lib_vars, wrap_vars >>

Keys == { Lower(m) : m \in RawMacs }

\* The outcome of a call: how it ended (out), the value returned or the
\* exception raised (val), the list returned (items), and the source line of
\* the return or raise statement.
NoResult == [op |-> None, out |-> None, val |-> None, items |-> {}, line |-> 0]
Returned(op, val, line) ==
    [op |-> op, out |-> "return", val |-> val, items |-> {}, line |-> line]
ReturnedList(op, items, line) ==
    [op |-> op, out |-> "return", val |-> None, items |-> items, line |-> line]
Raised(op, val, line) ==
    [op |-> op, out |-> "raise", val |-> val, items |-> {}, line |-> line]

\* The caller is between the two statements of setMacAddrToWatch.
InWatch == f_pc \in { "w_store", "m_store" }

\* The caller is inside wait_lease.
InWaitLease == f_pc \in { "w_check", "w_store", "w_wait" }

\* The lease table, the watch and the two threads of a wrapper that has just
\* been constructed.
LeaseInit ==
    /\ leases_dict = LeaseListReset(EmptyDict)
    /\ leases_dict_mutex = "free"
    /\ watched_macaddr = NoMac
    /\ got_lease_event = FALSE
    /\ h_pc = "idle"
    /\ h_kind = None /\ h_ipaddr = None /\ h_hwaddr = NoMac
    /\ h_ref = "none"
    /\ h_old = EmptyDict
    /\ h_exc = None
    /\ h_warned = FALSE
    /\ f_pc = "idle"
    /\ f_mac = NoMac /\ f_timeout = NoTimeout
    /\ f_left = 0
    /\ f_result = NoResult
    /\ f_kw = None
    /\ g_expected = [k \in Keys |-> None]
    /\ serial_dict = EmptyDict
    /\ h_clean = TRUE
    /\ h_event0 = FALSE
    /\ f_clean = TRUE
    /\ f_seen = FALSE

\* A supervisor that has just been constructed, on a system that runs none of
\* the processes.
SupInit ==
    /\ slave_dhcp_server_pid = NoPid
    /\ all_processes_pid = << >>
    /\ alive = {}
    /\ denied = {}
    /\ s_cmds = << >>
    /\ s_result = NoResult

\* There is no wrapper object, and dnsmasq does not run: the bus name has no
\* owner.
WrapNone ==
    /\ bus_owner = FALSE
    /\ w_pc = "none"
    /\ wait_bus_owner_timeout = 0
    /\ w_subscribed = FALSE
    /\ dbus_loop = None
    /\ dbus_loop_thread = "none"
    /\ owner_watch = FALSE
    /\ getversion_call = "none"
    /\ getversion_unlock_event = FALSE
    /\ remote_version = ""
    /\ loop_excs = {}
    /\ w_result = NoResult

\* The version string dnsmasq answers GetVersion with.
Version == "2.62"

\* The wrapper's constructor has just returned.
WrapLive ==
    /\ bus_owner = TRUE
    /\ w_pc = "live"
    /\ wait_bus_owner_timeout = 0
    /\ w_subscribed = TRUE
    /\ dbus_loop = "MainLoop"
    /\ dbus_loop_thread = "running"
    /\ owner_watch = TRUE
    /\ getversion_call = "answered"
    /\ getversion_unlock_event = TRUE
    /\ remote_version = Version
    /\ loop_excs = {}
    /\ w_result = Returned("__init__", None, 162)

\* A library that has just been constructed, without an interface.
LibInit ==
    /\ LeaseInit
    /\ SupInit
    /\ WrapNone
    /\ lib_ifname = None
    /\ lib_lease_time = None
    /\ slave_dhcp_process = None
    /\ dnsmasq_wrapper = None
    /\ dbus_loops = 0
    /\ c_pc = "idle"
    /\ c_result = NoResult

\* A wrapper has just been constructed on eth0 and observes a server that the
\* library did not start; the supervisor's class is used by itself.
Init ==
    /\ LeaseInit
    /\ SupInit
    /\ WrapLive
    /\ lib_ifname = "eth0"
    /\ lib_lease_time = None
    /\ slave_dhcp_process = None
    /\ dnsmasq_wrapper = "DnsmasqDhcpServerWrapper"
    /\ dbus_loops = 1
    /\ c_pc = "idle"
    /\ c_result = NoResult

(***************************************************************************)
(* The D-Bus loop thread: one handler at a time.                           *)
(***************************************************************************)
\* A handler step taken while the caller is inside setMacAddrToWatch.
BgOverlap == f_clean' = IF InWatch THEN FALSE ELSE f_clean

\* The handler ends.
HandlerReturn ==
    /\ h_pc' = "idle"
    /\ h_kind' = None /\ h_ipaddr' = None /\ h_hwaddr' = NoMac
    /\ h_clean' = TRUE
    /\ h_event0' = FALSE

\* The event is an add or an update for the MAC address mac, in any spelling.
LeaseEventFor(kind, hwaddr, mac) ==
    kind # "DhcpLeaseDeleted" /\ Lower(hwaddr) = Lower(mac)

\* The main loop calls _handleDhcpLeaseAdded/Updated/Deleted: the arguments
\* are converted (hwaddr lowercased), the table method is entered and takes
\* the lock (with self.leases_dict_mutex:), which only handlers ever take.
Deliver(kind, ipaddr, hwaddr) ==
    /\ h_pc = "idle"
    /\ leases_dict_mutex = "free"
    /\ leases_dict_mutex' = "bg"
    /\ h_pc' = "load"
    /\ h_kind' = kind
    /\ h_ipaddr' = ipaddr
    /\ h_hwaddr' = HandlerHwaddr(hwaddr)
    /\ h_exc' = None
    /\ h_warned' = FALSE
    /\ h_clean' = ~InWatch
    /\ h_event0' = got_lease_event
    /\ f_seen' = IF InWaitLease /\ LeaseEventFor(kind, hwaddr, f_mac)
                 THEN TRUE ELSE f_seen
    /\ BgOverlap
    /\ UNCHANGED << leases_dict, watched_macaddr, got_lease_event,
                    h_held, fg_vars, g_expected, serial_dict, sup_vars, lib_vars,
                    wrap_vars >>

\* The handler's event takes its place in the history at the instant the
\* handler reads self.leases_dict: an add, an update or a delete.
Recorded(kind, ipaddr, hwaddr) ==
    [g_expected EXCEPT ![Lower(hwaddr)] =
        IF kind = "DhcpLeaseDeleted" THEN None ELSE ipaddr]

\* LOAD_ATTR self.leases_dict: the handler now holds a reference to the dict.
LoadDict ==
    /\ h_pc = "load"
    /\ h_ref' = "live"
    /\ h_pc' = "store"
    /\ g_expected' = Recorded(h_kind, h_ipaddr, h_hwaddr)
    /\ UNCHANGED serial_dict
    /\ BgOverlap
    /\ UNCHANGED << obs_vars, h_kind, h_ipaddr, h_hwaddr, h_old, h_outcome,
                    fg_vars, h_hist, f_seen, sup_vars, lib_vars,
                    wrap_vars >>

\* put, remove, get and snapshot of DhcpServerLeaseList, each run alone from
\* call to return, on the table of the serial order.
SerialPut(t, hw_address, ipv4_address) ==
    [k \in DOMAIN t \cup { hw_address } |->
        IF k = hw_address THEN ipv4_address ELSE t[k]]

SerialRemove(t, hw_address) == [k \in DOMAIN t \ { hw_address } |-> t[k]]

SerialGet(t, hw_address) == IF hw_address \in DOMAIN t THEN t[hw_address] ELSE None

SerialSnapshot(t) == { << k, t[k] >> : k \in DOMAIN t }

\* The place of a handler's put or remove in the serial order: its store,
\* when the dict it loaded is still the table's; else just before the reset
\* that replaced that dict while the handler held it, which erased it.
TakesEffectAtStore == h_ref = "live"

\* The dict object the handler holds.
HeldDict == IF h_ref = "live" THEN leases_dict ELSE h_old

\* Variant: a delete handler that goes on to the tests of the watch, as the
\* add and update handlers do.
DeletedReturns_ChecksWatch == FALSE

\* _handleDhcpLeaseDeleted ends with deleteLease() (line 245).
DeletedReturns == TRUE

\* Variant: a table method that returns without leaving its with block.
Released_Held == "bg"

\* The owner of the lock once the with block of a table method is left.
Released == "free"

\* STORE_SUBSCR on the dict the handler holds, then the lock is released and
\* addLease returns into the handler (add and update).
StoreLease ==
    /\ h_pc = "store"
    /\ h_kind \in { "DhcpLeaseAdded", "DhcpLeaseUpdated" }
    /\ LET d == IF h_kind = "DhcpLeaseAdded"
                THEN addLease(HeldDict, h_ipaddr, h_hwaddr)
                ELSE updateLease(HeldDict, h_ipaddr, h_hwaddr)
       IN  leases_dict' = IF h_ref = "live" THEN d ELSE leases_dict
    /\ serial_dict' = IF TakesEffectAtStore
                      THEN SerialPut(serial_dict, h_hwaddr, h_ipaddr)
                      ELSE serial_dict
    /\ h_ref' = "none"
    /\ h_old' = EmptyDict
    /\ leases_dict_mutex' = Released
    /\ h_pc' = "chk_none"
    /\ BgOverlap
    /\ UNCHANGED << watched_macaddr, got_lease_event, h_kind, h_ipaddr, h_hwaddr,
                    h_outcome, fg_vars, g_expected, h_hist, f_seen, sup_vars, lib_vars,
                    wrap_vars >>

\* DELETE_SUBSCR on the dict the handler holds, the lock is released and
\* _handleDhcpLeaseDeleted returns.
DeleteLease ==
    /\ h_pc = "store"
    /\ h_kind = "DhcpLeaseDeleted"
    /\ LET r == deleteLease(HeldDict, h_hwaddr)
       IN  /\ leases_dict' = IF h_ref = "live" THEN r.dict ELSE leases_dict
           /\ h_exc' = r.exc
           /\ h_warned' = r.warned
    /\ serial_dict' = IF TakesEffectAtStore
                      THEN SerialRemove(serial_dict, h_hwaddr)
                      ELSE serial_dict
    /\ h_ref' = "none"
    /\ h_old' = EmptyDict
    /\ leases_dict_mutex' = Released
    /\ IF DeletedReturns
       THEN HandlerReturn
       ELSE /\ h_pc' = "chk_none"
            /\ UNCHANGED << h_kind, h_ipaddr, h_hwaddr, h_hist >>
    /\ BgOverlap
    /\ UNCHANGED << watched_macaddr, got_lease_event, fg_vars, g_expected,
                    f_seen, sup_vars, lib_vars,
                    wrap_vars >>

\* if not self._watched_macaddr is None:
CheckWatchedNone ==
    /\ h_pc = "chk_none"
    /\ IF watched_macaddr = NoMac
       THEN HandlerReturn
       ELSE /\ h_pc' = "chk_match"
            /\ UNCHANGED << h_kind, h_ipaddr, h_hwaddr, h_hist >>
    /\ BgOverlap
    /\ UNCHANGED << obs_vars, h_held, h_outcome, fg_vars, g_expected, serial_dict,
                    f_seen, sup_vars, lib_vars,
                    wrap_vars >>

\* if self._watched_macaddr == hwaddr:   (a second read of the attribute)
CheckWatchedMatch ==
    /\ h_pc = "chk_match"
    /\ IF WatchMatches(watched_macaddr, h_hwaddr)
       THEN /\ h_pc' = "set"
            /\ UNCHANGED << h_kind, h_ipaddr, h_hwaddr, h_hist >>
       ELSE HandlerReturn
    /\ BgOverlap
    /\ UNCHANGED << obs_vars, h_held, h_outcome, fg_vars, g_expected, serial_dict,
                    f_seen, sup_vars, lib_vars,
                    wrap_vars >>

\* self.watched_macaddr_got_lease_event.set()
SetEvent ==
    /\ h_pc = "set"
    /\ got_lease_event' = TRUE
    /\ HandlerReturn
    /\ BgOverlap
    /\ UNCHANGED << leases_dict, leases_dict_mutex, watched_macaddr,
                    h_held, h_outcome, fg_vars, g_expected, serial_dict, f_seen, sup_vars, lib_vars,
                    wrap_vars >>

Handler ==
    \/ \E kind \in Kinds, ipaddr \in IPs, hwaddr \in RawMacs :
          Deliver(kind, ipaddr, hwaddr)
    \/ LoadDict
    \/ StoreLease
    \/ DeleteLease
    \/ CheckWatchedNone
    \/ CheckWatchedMatch
    \/ SetEvent

(***************************************************************************)
(* The caller thread: the observer's methods and the facade's keywords.    *)
(***************************************************************************)
\* wait_lease's except clause turns NoLeaseFound into this exception.
NoLeaseKnown == "No lease known for"

\* A caller step that touches the watch while a handler is running.
FgOverlap == h_clean' = IF h_pc # "idle" THEN FALSE ELSE h_clean

\* The call ends.
CallReturn(result) ==
    /\ f_pc' = "idle"
    /\ f_mac' = NoMac
    /\ f_timeout' = NoTimeout
    /\ f_left' = 0
    /\ f_result' = result
    /\ f_kw' = None

\* find_ip_for_mac(mac): return self._dnsmasq_wrapper.getIpForMac(mac)
find_ip_for_mac(mac) ==
    /\ f_pc = "idle"
    /\ CallReturn(Returned("find_ip_for_mac", getIpForMac(leases_dict, mac), 768))
    /\ UNCHANGED << obs_vars, bg_vars, hist_vars, sup_vars, lib_vars,
                    wrap_vars >>

\* log_leases(): the list getLeasesList() returns.
getLeasesList ==
    /\ f_pc = "idle"
    /\ CallReturn(ReturnedList("getLeasesList", to_tuple_list(leases_dict), 271))
    /\ UNCHANGED << obs_vars, bg_vars, hist_vars, sup_vars, lib_vars,
                    wrap_vars >>

\* A keyword that uses self._dnsmasq_wrapper while the library holds no
\* wrapper reads an attribute of None.
NoWrapper == dnsmasq_wrapper = None

\* reset_lease_database(): DnsmasqDhcpServerWrapper.reset() binds
\* self.leases_dict to a new dict; a handler that loaded the old one keeps it.
\* Nothing else is called.
reset_lease_database ==
    /\ f_pc = "idle"
    /\ c_pc = "idle"
    /\ IF NoWrapper
       THEN /\ CallReturn(Raised("reset_lease_database", "AttributeError", 778))
            /\ UNCHANGED << leases_dict, h_ref, h_old, g_expected, serial_dict >>
       ELSE /\ leases_dict' = LeaseListReset(leases_dict)
            /\ h_ref' = IF h_ref = "live" THEN "old" ELSE h_ref
            /\ h_old' = IF h_ref = "live" THEN leases_dict ELSE h_old
            /\ g_expected' = [k \in Keys |-> None]
            /\ serial_dict' = EmptyDict
            /\ CallReturn(Returned("reset_lease_database", None, 170))
    /\ UNCHANGED << leases_dict_mutex, watched_macaddr, got_lease_event,
                    h_locals, h_outcome, h_hist, f_clean, f_seen, sup_vars, lib_vars,
                    wrap_vars >>

\* setMacAddrToWatch(), first statement: the event is cleared.
ClearEvent ==
    /\ got_lease_event' = FALSE
    /\ f_clean' = (h_pc = "idle")
    /\ FgOverlap

\* setMacAddrToWatch(), second statement: the target is stored.
StoreWatched ==
    /\ watched_macaddr' = WatchedValue(f_mac)
    /\ f_clean' = TRUE
    /\ FgOverlap

\* setMacAddrToWatch(mac) called on the observer.
WatchClear(mac) ==
    /\ f_pc = "idle"
    /\ f_pc' = "m_store"
    /\ f_mac' = mac
    /\ f_result' = NoResult
    /\ ClearEvent
    /\ UNCHANGED << leases_dict, leases_dict_mutex, watched_macaddr,
                    h_locals, h_held, h_outcome, f_timeout, f_left, f_kw,
                    g_expected, serial_dict, h_event0, f_seen, sup_vars, lib_vars,
                    wrap_vars >>

WatchStore ==
    /\ f_pc = "m_store"
    /\ StoreWatched
    /\ CallReturn(Returned("setMacAddrToWatch", None, 263))
    /\ UNCHANGED << leases_dict, leases_dict_mutex, got_lease_event,
                    h_locals, h_held, h_outcome,
                    g_expected, serial_dict, h_event0, f_seen, sup_vars, lib_vars,
                    wrap_vars >>

\* What the caller gets when wait_lease ends with r: r itself from
\* wait_lease; from check_dhcp_client_on (line 798) what wait_lease raised,
\* or nothing; from check_dhcp_client_off (lines 818-822) nothing when
\* wait_lease raised anything at all, else 'Existing lease for'.
KeywordOutcome(kw, r) ==
    IF kw = None
    THEN r
    ELSE IF kw = "check_dhcp_client_on"
    THEN IF r.out = "raise" THEN Raised(kw, r.val, r.line)
         ELSE Returned(kw, None, 798)
    ELSE IF r.out = "raise"
    THEN Returned(kw, None, 821)
    ELSE Raised(kw, "Existing lease for", 822)

\* wait_lease(mac, timeout) called by kw: ip = getIpForMac(mac) (line 836,
\* outside the try block); return ip if known.
WaitLeaseEnter(kw, mac, timeout) ==
    IF NoWrapper
    THEN /\ CallReturn(KeywordOutcome(kw, Raised("wait_lease", "AttributeError", 836)))
         /\ f_seen' = FALSE
    ELSE LET ip == getIpForMac(leases_dict, mac)
         IN  IF ip # None
             THEN /\ CallReturn(KeywordOutcome(kw, Returned("wait_lease", ip, 839)))
                  /\ f_seen' = FALSE
             ELSE /\ f_pc' = "w_check"
                  /\ f_mac' = mac
                  /\ f_timeout' = timeout
                  /\ f_left' = 0
                  /\ f_result' = NoResult
                  /\ f_kw' = kw
                  /\ f_seen' = (h_pc # "idle" /\ LeaseEventFor(h_kind, h_hwaddr, mac))

\* wait_lease(mac, timeout) called as a keyword.
WaitLeaseLookup(mac, timeout) ==
    /\ f_pc = "idle"
    /\ c_pc = "idle"
    /\ WaitLeaseEnter(None, mac, timeout)
    /\ UNCHANGED << obs_vars, bg_vars, g_expected, serial_dict, h_hist, f_clean, sup_vars, lib_vars,
                    wrap_vars >>

\* LEASE_DURATION_MARGIN = float(10/100): the division is Python 2's, of two
\* integers, and floors.
LEASE_DURATION_MARGIN == 10 \div 100

\* float(self._lease_time) for a lease time in seconds.
LeaseSeconds(lease_time) ==
    CASE lease_time = "120" -> 120
      [] lease_time = "20"  -> 20
      [] lease_time = "19"  -> 19
      [] lease_time = "3"   -> 3
      [] lease_time = "2"   -> 2

\* int((LEASE_DURATION_MARGIN + 1.0) * float(self._lease_time) / 2)
DefaultTimeout(lease_time) ==
    << ((LEASE_DURATION_MARGIN + 1) * LeaseSeconds(lease_time)) \div 2 >>

CheckKeywords == { "check_dhcp_client_on", "check_dhcp_client_off" }

\* check_dhcp_client_on(mac, timeout) and check_dhcp_client_off(mac, timeout)
\* up to wait_lease's lookup: without a timeout they take one from the lease
\* time, or fail with NoLeaseTimeProvided.
check_dhcp_client(kw, mac, timeout) ==
    /\ f_pc = "idle"
    /\ c_pc = "idle"
    /\ IF timeout = NoTimeout /\ lib_lease_time = None
       THEN /\ CallReturn(Raised(kw, "NoLeaseTimeProvided",
                                 IF kw = "check_dhcp_client_on" THEN 794 ELSE 814))
            /\ f_seen' = FALSE
       ELSE WaitLeaseEnter(kw, mac, IF timeout = NoTimeout
                                    THEN DefaultTimeout(lib_lease_time)
                                    ELSE timeout)
    /\ UNCHANGED << obs_vars, bg_vars, g_expected, serial_dict, h_hist, f_clean, sup_vars, lib_vars,
                    wrap_vars >>

\* Variant: wait_lease lets a zero timeout through (timeout < 0).
MayNotWait_ZeroWaits(timeout) == timeout = NoTimeout \/ timeout[1] < 0

\* wait_lease may not wait: timeout is None, or int(timeout) <= 0.
MayNotWait(timeout) == timeout = NoTimeout \/ timeout[1] <= 0

\* wait_lease, the try block up to setMacAddrToWatch's first statement.
WaitLeaseCheck ==
    /\ f_pc = "w_check"
    /\ IF MayNotWait(f_timeout)
       THEN /\ CallReturn(KeywordOutcome(f_kw,
                           Raised("wait_lease", NoLeaseKnown,
                                  IF f_timeout = NoTimeout THEN 842 ELSE 845)))
            /\ f_seen' = FALSE
            /\ UNCHANGED << got_lease_event, f_clean, h_clean >>
       ELSE /\ f_pc' = "w_store"
            /\ f_left' = f_timeout[1]
            /\ ClearEvent
            /\ UNCHANGED << f_mac, f_timeout, f_result, f_kw, f_seen >>
    /\ UNCHANGED << leases_dict, leases_dict_mutex, watched_macaddr,
                    h_locals, h_held, h_outcome, g_expected, serial_dict, h_event0, sup_vars, lib_vars,
                    wrap_vars >>

WaitLeaseStore ==
    /\ f_pc = "w_store"
    /\ StoreWatched
    /\ f_pc' = "w_wait"
    /\ UNCHANGED << leases_dict, leases_dict_mutex, got_lease_event,
                    h_locals, h_held, h_outcome,
                    f_mac, f_timeout, f_left, f_result, f_kw,
                    g_expected, serial_dict, h_event0, f_seen, sup_vars, lib_vars,
                    wrap_vars >>

\* Event.wait(timeout) is over: the flag is set or the timeout has elapsed.
WaitOver(flag, left) == flag \/ left = 0

\* What wait_lease does with Event.wait's result (the flag): on True it runs
\* off the end of the function, on False it raises NoLeaseFound.
AfterWait(flag) ==
    IF flag
    THEN Returned("wait_lease", None, 848)
    ELSE Raised("wait_lease", NoLeaseKnown, 849)

\* One clock tick passes while the caller is blocked in Event.wait.
Tick ==
    /\ f_pc = "w_wait"
    /\ f_left > 0
    /\ f_left' = f_left - 1
    /\ UNCHANGED << obs_vars, bg_vars, hist_vars, f_pc, f_mac, f_timeout,
                    f_result, f_kw, sup_vars, lib_vars,
                    wrap_vars >>

\* Event.wait(timeout) returns the flag and wait_lease ends.
WaitLeaseWake ==
    /\ f_pc = "w_wait"
    /\ WaitOver(got_lease_event, f_left)
    /\ CallReturn(KeywordOutcome(f_kw, AfterWait(got_lease_event)))
    /\ f_seen' = FALSE
    /\ UNCHANGED << obs_vars, bg_vars, g_expected, serial_dict, h_hist, f_clean, sup_vars, lib_vars,
                    wrap_vars >>

Caller ==
    \/ \E mac \in RawMacs : find_ip_for_mac(mac)
    \/ getLeasesList
    \/ reset_lease_database
    \/ \E mac \in RawMacs : WatchClear(mac)
    \/ WatchStore
    \/ \E mac \in RawMacs, timeout \in Timeouts : WaitLeaseLookup(mac, timeout)
    \/ WaitLeaseCheck
    \/ WaitLeaseStore
    \/ Tick
    \/ WaitLeaseWake

Next == Handler \/ Caller

Spec == Init /\ [][Next]_vars

\* The clock advances and a thread whose Event.wait is over is scheduled.
FairSpec == Spec /\ WF_vars(Tick) /\ WF_vars(WaitLeaseWake)

(***************************************************************************)
(* SlaveDhcpServerProcess: the supervisor of the dnsmasq daemon.  Its      *)
(* methods run on the caller thread from call to return; what the external *)
(* commands and the system answer is chosen with the call.                 *)
(***************************************************************************)
Range(seq) == { seq[i] : i \in DOMAIN seq }

\* An external command run through subprocess, and the PID it is aimed at.
Cmd(name, pid) == [cmd |-> name, pid |-> pid]

\* _checkPid(pid): os.kill(pid, 0) raises no OSError.  It raises one when no
\* process has the PID (ESRCH) and when the process is another user's
\* (EPERM).
checkPid(pid) == pid \in alive /\ pid \notin denied

\* hasBeenStarted()
hasBeenStarted == slave_dhcp_server_pid # NoPid

\* isRunning()
isRunning ==
    /\ hasBeenStarted
    /\ \A i \in DOMAIN all_processes_pid : checkPid(all_processes_pid[i])

\* Variant: addSlavePid(pid) without its membership test.
addSlavePid_Always(list, pid) == list \o << pid >>

\* Variant: addSlavePid(pid) that adds nothing.
addSlavePid_Drops(list, pid) == list

\* addSlavePid(pid): the list after the call.
addSlavePid(list, pid) ==
    IF pid \in Range(list) THEN list ELSE list \o << pid >>

\* Variant: start() without its guard, launching whatever the state.
StartRefused_Never == FALSE

\* start() is refused: if self.isRunning(): raise.
StartRefused == isRunning

\* Variant: subprocess.call in the place of check_call, the exit code unread.
check_call_Unchecked(rc) == FALSE

\* subprocess.check_call(cmd) raises CalledProcessError: the exit code is
\* not zero.
check_call(rc) == rc # 0

\* Variant: every exit code but 0 is a failed launch.
LaunchOutcome_NoPortCase(rc) == IF rc = 0 THEN "ok" ELSE "SlaveFailed"

\* What start() makes of proc.returncode.
LaunchOutcome(rc) ==
    IF rc = 0 THEN "ok"
    ELSE IF rc = 2 THEN "DhcpPortAlreadyUsed"
    ELSE "SlaveFailed"

\* The commands start() runs before the daemon itself.
StartPrelude ==
    << Cmd("mkdir", NoPid), Cmd("chown", NoPid), Cmd("chgrp", NoPid),
       Cmd("dnsmasq --test", NoPid) >>

\* start().  chown_rc, chgrp_rc and test_rc are the exit codes of chown, chgrp
\* and the --test run, rc the exit code of the daemon's launch, daemon the PID
\* of the daemon a launch with exit code 0 leaves running, eperm whether that
\* daemon runs as a user the caller may not signal, and pidfile the PID read
\* from the PID file (NoPid: the line read is empty), which is the daemon's or
\* one an earlier run left there.
start(chown_rc, chgrp_rc, test_rc, rc, daemon, eperm, pidfile) ==
    /\ IF StartRefused
       THEN /\ s_result' = Raised("start", "DhcpServerAlreadyStarted", 322)
            /\ s_cmds' = << >>
            /\ UNCHANGED << slave_dhcp_server_pid, all_processes_pid, alive, denied >>
       ELSE IF check_call(chown_rc)
       THEN /\ s_result' = Raised("start", "CalledProcessError", 336)
            /\ s_cmds' = SubSeq(StartPrelude, 1, 2)
            /\ UNCHANGED << slave_dhcp_server_pid, all_processes_pid, alive, denied >>
       ELSE IF check_call(chgrp_rc)
       THEN /\ s_result' = Raised("start", "CalledProcessError", 346)
            /\ s_cmds' = SubSeq(StartPrelude, 1, 3)
            /\ UNCHANGED << slave_dhcp_server_pid, all_processes_pid, alive, denied >>
       ELSE IF check_call(test_rc)
       THEN /\ s_result' = Raised("start", "CalledProcessError", 368)
            /\ s_cmds' = StartPrelude
            /\ UNCHANGED << slave_dhcp_server_pid, all_processes_pid, alive, denied >>
       ELSE IF LaunchOutcome(rc) # "ok"
       THEN /\ s_result' = Raised("start", LaunchOutcome(rc),
                                  IF rc = 2 THEN 380 ELSE 383)
            /\ s_cmds' = StartPrelude \o << Cmd("dnsmasq", NoPid) >>
            /\ UNCHANGED << slave_dhcp_server_pid, all_processes_pid, alive, denied >>
       ELSE /\ daemon \notin alive
            /\ s_cmds' = StartPrelude \o << Cmd("dnsmasq", NoPid) >>
            /\ alive' = alive \cup { daemon }
            /\ denied' = IF eperm THEN denied \cup { daemon } ELSE denied
            /\ IF pidfile = NoPid
               THEN /\ s_result' = Raised("start", "EmptyPIDFile", 390)
                    /\ UNCHANGED << slave_dhcp_server_pid, all_processes_pid >>
               ELSE /\ s_result' = Returned("start", None, 393)
                    /\ slave_dhcp_server_pid' = pidfile
                    /\ all_processes_pid' = addSlavePid(all_processes_pid, pidfile)
    /\ UNCHANGED << lease_vars, wrap_vars >>

ExitCodes == { 0, 1, 2 }

\* The answers of the system that a call of start() may read, as tuples
\* << chown_rc, chgrp_rc, test_rc, rc, daemon, eperm, pidfile >>: a command
\* that is not run has no exit code, and a launch that fails leaves no daemon
\* and no PID file to read.  The answers that are not read are fixed (0, the
\* first PID, FALSE, NoPid), so that one call is one choice of answers.
StartInputs ==
    { << 1, 0, 0, 0, 1, FALSE, NoPid >>,
      << 0, 1, 0, 0, 1, FALSE, NoPid >>,
      << 0, 0, 1, 0, 1, FALSE, NoPid >> }
    \cup { << 0, 0, 0, rc, 1, FALSE, NoPid >> : rc \in ExitCodes \ { 0 } }
    \cup { << 0, 0, 0, 0, daemon, eperm, pidfile >> :
              daemon \in Pids, eperm \in BOOLEAN, pidfile \in { NoPid } \cup Pids }

\* A start() that is refused reads none of them.
StartReads(p) ==
    StartRefused => p = << 0, 0, 0, 0, 1, FALSE, NoPid >>

\* start() with the answers p.
startWith(p) ==
    /\ StartReads(p)
    /\ start(p[1], p[2], p[3], p[4], p[5], p[6], p[7])

\* addSlavePid(pid) called on the supervisor.
AddSlavePid(pid) ==
    /\ all_processes_pid' = addSlavePid(all_processes_pid, pid)
    /\ s_cmds' = << >>
    /\ s_result' = Returned("addSlavePid", None, 401)
    /\ UNCHANGED << slave_dhcp_server_pid, alive, denied, lease_vars, wrap_vars, lib_vars >>

\* killSlavePids() calls _sudoKillSubprocessFromPid(pid): force keeps its
\* default.
KillForce == FALSE

\* _sudoKillSubprocessFromPid(pid, force = force): the commands it runs.
\* SIGINT goes out first; with force, SIGKILL follows if _checkPid(pid) still
\* answers True when the timeout has run out (seen).
sudoKillSubprocessFromPid(pid, force, seen) ==
    << Cmd("kill -SIGINT", pid) >>
    \o (IF force /\ seen THEN << Cmd("kill -SIGKILL", pid) >> ELSE << >>)

\* The tracked PIDs that _checkPid still sees once SIGINT has ended the
\* processes of dying.
Seen(pid, dying) == pid \notin dying /\ checkPid(pid)

\* killSlavePids(), the loop: the commands run for the PIDs of list, in order.
RECURSIVE KillCmds(_, _)
KillCmds(list, dying) ==
    IF list = << >>
    THEN << >>
    ELSE sudoKillSubprocessFromPid(Head(list), KillForce, Seen(Head(list), dying))
         \o KillCmds(Tail(list), dying)

\* Variant: killSlavePids() that forgets no PID.
ClearedList_Kept(list) == list

\* killSlavePids(): self._all_processes_pid = []
ClearedList(list) == << >>

\* Variant: killSlavePids() that keeps the daemon's PID.
ClearedPid_Kept(pid) == pid

\* killSlavePids(): self._slave_dhcp_server_pid = None
ClearedPid(pid) == NoPid

\* kill(): killSlavePids() sends SIGINT to every PID of the list, in order,
\* and forgets them all; dying are the processes the signal ends at once.
kill(dying) ==
    /\ dying \subseteq (Range(all_processes_pid) \cap alive)
    /\ s_cmds' = KillCmds(all_processes_pid, dying)
    /\ LET killed == { pid \in Range(all_processes_pid) :
                         KillForce /\ Seen(pid, dying) }
       IN  /\ alive' = (alive \ dying) \ killed
           /\ denied' = (denied \ dying) \ killed
    /\ all_processes_pid' = ClearedList(all_processes_pid)
    /\ slave_dhcp_server_pid' = ClearedPid(slave_dhcp_server_pid)
    /\ s_result' = Returned("kill", None, 459)
    /\ UNCHANGED << lease_vars, wrap_vars >>

\* Variant: the signal goes to the first PID of the list.
LastPid_First(list) == list[1]

\* killLastPid: pid = self._all_processes_pid[-1]
LastPid(list) == list[Len(list)]

\* killLastPid(signum): the signal goes to the last PID of the list; dies
\* tells whether it ends that process at once.
killLastPid(signum, dies) ==
    /\ IF Len(all_processes_pid) = 0
       THEN /\ s_result' = Raised("killLastPid", "NoChildPID", 441)
            /\ s_cmds' = << >>
            /\ UNCHANGED << alive, denied >>
       ELSE LET pid == LastPid(all_processes_pid)
            IN  /\ s_cmds' = << Cmd("kill -" \o signum, pid) >>
                /\ alive' = IF dies THEN alive \ { pid } ELSE alive
                /\ denied' = IF dies THEN denied \ { pid } ELSE denied
                /\ s_result' = Returned("killLastPid", None, 445)
    /\ UNCHANGED << slave_dhcp_server_pid, all_processes_pid, lease_vars, wrap_vars >>

\* isRunning() called on the supervisor.
IsRunning ==
    /\ s_result' = Returned("isRunning", IF isRunning THEN "True" ELSE "False", 479)
    /\ s_cmds' = << >>
    /\ UNCHANGED << slave_dhcp_server_pid, all_processes_pid, alive, denied,
                    lease_vars, wrap_vars, lib_vars >>

\* A process ends by itself (or a signal sent earlier ends it).
ProcessExit(pid) ==
    /\ pid \in alive
    /\ alive' = alive \ { pid }
    /\ denied' = denied \ { pid }
    /\ UNCHANGED << slave_dhcp_server_pid, all_processes_pid, s_cmds, s_result,
                    lease_vars, wrap_vars, lib_vars >>

Signals == { "SIGHUP", "SIGINT" }

\* This step is a call of start().
StartStep == \E p \in StartInputs : startWith(p) /\ UNCHANGED lib_vars

\* This step is a call of kill().
KillStep == \E dying \in SUBSET Pids : kill(dying) /\ UNCHANGED lib_vars

\* This step is a call of killLastPid().
KillLastPidStep ==
    \E signum \in Signals, dies \in BOOLEAN :
       killLastPid(signum, dies) /\ UNCHANGED lib_vars

SupNext ==
    \/ StartStep
    \/ \E pid \in Pids : AddSlavePid(pid)
    \/ KillStep
    \/ KillLastPidStep
    \/ IsRunning
    \/ \E pid \in Pids : ProcessExit(pid)

SupSpec == Init /\ [][SupNext]_vars

(***************************************************************************)
(* DhcpServerLibrary: the keywords that start and stop the supervisor and  *)
(* the wrapper.  They run on the caller thread; a keyword that calls into  *)
(* the supervisor and then into the wrapper takes one step for each.       *)
(***************************************************************************)
IfNames == { "eth0", "eth1" }

LeaseTimes == { "120" }

\* The wrapper's constructor ends: with an object ("ok"), with 'No owner found
\* for bus name' (line 118), or with 'TimeoutOnGetVersion' (line 158).
WrapperOutcomes == { "ok", "NoOwner", "TimeoutOnGetVersion" }

MaxLoops == 2

\* Variant: start() that takes a held supervisor for none.
AlreadyStarted_Never == FALSE

\* start(): if not self._slave_dhcp_process is None
AlreadyStarted == slave_dhcp_process # None

\* if not ifname is None: self._ifname = ifname
GivenOrKept(given, kept) == IF given # None THEN given ELSE kept

\* set_interface(ifname)
set_interface(ifname) ==
    /\ c_pc = "idle"
    /\ lib_ifname' = ifname
    /\ c_result' = Returned("set_interface", None, 626)
    /\ UNCHANGED << lib_lease_time, slave_dhcp_process, dnsmasq_wrapper, dbus_loops,
                    c_pc, lease_vars, wrap_vars, sup_vars >>

\* set_lease_time(lease_time)
set_lease_time(lease_time) ==
    /\ c_pc = "idle"
    /\ lib_lease_time' = lease_time
    /\ c_result' = Returned("set_lease_time", None, 650)
    /\ UNCHANGED << lib_ifname, slave_dhcp_process, dnsmasq_wrapper, dbus_loops,
                    c_pc, lease_vars, wrap_vars, sup_vars >>

\* start(ifname, lease_time), up to the construction of the supervisor
\* (lines 660-674).
lib_start(ifname, lease_time) ==
    /\ c_pc = "idle"
    /\ IF AlreadyStarted
       THEN /\ c_result' = Raised("start", "DhcpServerAlreadyStarted", 661)
            /\ UNCHANGED << lib_ifname, lib_lease_time, slave_dhcp_process, c_pc,
                            slave_dhcp_server_pid, all_processes_pid >>
       ELSE /\ lib_ifname' = GivenOrKept(ifname, lib_ifname)
            /\ IF lib_ifname' = None
               THEN /\ c_result' = Raised("start", "NoInterfaceProvided", 667)
                    /\ UNCHANGED << lib_lease_time, slave_dhcp_process, c_pc,
                                    slave_dhcp_server_pid, all_processes_pid >>
               ELSE /\ lib_lease_time' = GivenOrKept(lease_time, lib_lease_time)
                    /\ slave_dhcp_process' = "SlaveDhcpServerProcess"
                    /\ slave_dhcp_server_pid' = NoPid
                    /\ all_processes_pid' = << >>
                    /\ c_pc' = "start_slave"
                    /\ c_result' = NoResult
    /\ UNCHANGED << dnsmasq_wrapper, dbus_loops, alive, denied, s_cmds, s_result,
                    lease_vars, wrap_vars >>

\* start(): self._slave_dhcp_process.start() (line 675); what it raises
\* leaves start().
lib_start_slave(p) ==
    /\ c_pc = "start_slave"
    /\ startWith(p)
    /\ IF s_result'.out = "raise"
       THEN c_pc' = "idle" /\ c_result' = s_result'
       ELSE c_pc' = "monitor" /\ c_result' = c_result
    /\ UNCHANGED << lib_ifname, lib_lease_time, slave_dhcp_process, dnsmasq_wrapper,
                    dbus_loops >>

\* Variant: restart_monitoring_server() that signals whether or not a
\* supervisor is held.
SighupWanted_Always(process) == TRUE

\* restart_monitoring_server(), line 697: if not self._slave_dhcp_process is
\* None
SighupWanted(process) == process # None

\* restart_monitoring_server(ifname), up to the construction of the wrapper
\* (lines 689-696); start() reaches it through _monitor_dhcp_server(), with
\* no interface given.  A wrapper whose constructor returns has an empty
\* table, no watched address, a cleared event and a loop thread that runs;
\* one whose constructor times out on GetVersion has started its loop thread
\* too (line 148).
restart_monitoring_server(ifname, outcome) ==
    /\ c_pc \in { "idle", "monitor" }
    /\ c_pc = "monitor" => ifname = None
    /\ dbus_loops < MaxLoops
    /\ LET op == IF c_pc = "monitor" THEN "start" ELSE "restart_monitoring_server"
       IN  /\ lib_ifname' = GivenOrKept(ifname, lib_ifname)
           /\ IF lib_ifname' = None
              THEN /\ c_result' = Raised(op, "NoInterfaceProvided", 693)
                   /\ c_pc' = "idle"
                   /\ UNCHANGED << dnsmasq_wrapper, dbus_loops, obs_vars, g_expected, serial_dict >>
              ELSE IF outcome = "NoOwner"
              THEN /\ c_result' = Raised(op, "No owner found for bus name", 118)
                   /\ c_pc' = "idle"
                   /\ UNCHANGED << dnsmasq_wrapper, dbus_loops, obs_vars, g_expected, serial_dict >>
              ELSE IF outcome = "TimeoutOnGetVersion"
              THEN /\ c_result' = Raised(op, "TimeoutOnGetVersion", 158)
                   /\ c_pc' = "idle"
                   /\ dbus_loops' = dbus_loops + 1
                   /\ UNCHANGED << dnsmasq_wrapper, obs_vars, g_expected, serial_dict >>
              ELSE /\ dnsmasq_wrapper' = "DnsmasqDhcpServerWrapper"
                   /\ dbus_loops' = dbus_loops + 1
                   /\ leases_dict' = LeaseListReset(EmptyDict)
                   /\ leases_dict_mutex' = "free"
                   /\ watched_macaddr' = NoMac
                   /\ got_lease_event' = FALSE
                   /\ g_expected' = [k \in Keys |-> None]
                   /\ serial_dict' = EmptyDict
                   /\ IF SighupWanted(slave_dhcp_process)
                      THEN /\ c_pc' = IF c_pc = "monitor" THEN "start_sighup"
                                      ELSE "restart_sighup"
                           /\ c_result' = NoResult
                      ELSE /\ c_pc' = "idle"
                           /\ c_result' = Returned(op, None, 697)
    /\ UNCHANGED << lib_lease_time, slave_dhcp_process, bg_vars, fg_vars, h_hist,
                    f_clean, f_seen, sup_vars, wrap_vars >>

\* restart_monitoring_server(): self._slave_dhcp_process.killLastPid('SIGHUP')
\* (line 698); what it raises leaves the keyword.
restart_monitoring_sighup(dies) ==
    /\ c_pc \in { "start_sighup", "restart_sighup" }
    /\ killLastPid("SIGHUP", dies)
    /\ c_pc' = "idle"
    /\ c_result' =
          IF s_result'.out = "raise"
          THEN s_result'
          ELSE Returned(IF c_pc = "start_sighup" THEN "start"
                        ELSE "restart_monitoring_server", None, 698)
    /\ UNCHANGED << lib_ifname, lib_lease_time, slave_dhcp_process, dnsmasq_wrapper,
                    dbus_loops >>

\* The loop threads that run once stop_monitoring_server() has called exit()
\* on the wrapper the library holds.
LoopsAfterExit == IF dnsmasq_wrapper # None THEN dbus_loops - 1 ELSE dbus_loops

\* stop_monitoring_server()
stop_monitoring_server ==
    /\ c_pc = "idle"
    /\ dbus_loops' = LoopsAfterExit
    /\ dnsmasq_wrapper' = None
    /\ c_result' = Returned("stop_monitoring_server", None, 719)
    /\ UNCHANGED << lib_ifname, lib_lease_time, slave_dhcp_process, c_pc,
                    lease_vars, wrap_vars, sup_vars >>

\* Variant: stop() that keeps the supervisor object.
StoppedProcess_Kept(process) == process

\* stop(), line 733: self._slave_dhcp_process = None
StoppedProcess(process) == None

\* stop(), up to its call of kill(): stop_monitoring_server() (line 729);
\* without a supervisor held, stop() ends here.
stop ==
    /\ c_pc = "idle"
    /\ dbus_loops' = LoopsAfterExit
    /\ dnsmasq_wrapper' = None
    /\ IF slave_dhcp_process # None
       THEN /\ c_pc' = "stop_kill"
            /\ c_result' = NoResult
            /\ UNCHANGED slave_dhcp_process
       ELSE /\ slave_dhcp_process' = StoppedProcess(slave_dhcp_process)
            /\ c_result' = Returned("stop", None, 733)
            /\ UNCHANGED c_pc
    /\ UNCHANGED << lib_ifname, lib_lease_time, sup_vars, lease_vars, wrap_vars >>

\* stop(): self._slave_dhcp_process.kill() (line 731), then the supervisor
\* object is dropped (line 733).
stop_kill(dying) ==
    /\ c_pc = "stop_kill"
    /\ kill(dying)
    /\ slave_dhcp_process' = StoppedProcess(slave_dhcp_process)
    /\ c_pc' = "idle"
    /\ c_result' = Returned("stop", None, 733)
    /\ UNCHANGED << lib_ifname, lib_lease_time, dnsmasq_wrapper, dbus_loops >>

LibNext ==
    \/ \E ifname \in IfNames : set_interface(ifname)
    \/ \E lease_time \in LeaseTimes : set_lease_time(lease_time)
    \/ \E ifname \in IfNames \cup { None }, lease_time \in LeaseTimes \cup { None } :
          lib_start(ifname, lease_time)
    \/ \E p \in StartInputs : lib_start_slave(p)
    \/ \E ifname \in IfNames \cup { None }, outcome \in WrapperOutcomes :
          restart_monitoring_server(ifname, outcome)
    \/ \E dies \in BOOLEAN : restart_monitoring_sighup(dies)
    \/ stop_monitoring_server
    \/ stop
    \/ \E dying \in SUBSET Pids : stop_kill(dying)
    \/ reset_lease_database
    \/ \E pid \in Pids : ProcessExit(pid)

LibSpec == LibInit /\ [][LibNext]_vars

(***************************************************************************)
(* DnsmasqDhcpServerWrapper by itself: its constructor statement by        *)
(* statement on the caller thread, the callbacks of the loop thread it     *)
(* starts, exit() and the queries.  The model follows one wrapper object   *)
(* at a time.                                                              *)
(***************************************************************************)
\* The sleeps of 0.2 s that wait_bus_owner_timeout = 5 allows: 25 in the
\* source, fewer here.
WaitBusOwnerPolls == 3

Owners == { "", ":1.42" }

\* The loop thread of the wrapper dispatches the callbacks, one at a time.
LoopDispatches == dbus_loop_thread = "running" /\ h_pc = "idle"

\* DnsmasqDhcpServerWrapper(ifname), lines 103-112: the table, the watch, the
\* main loop object and the bus connection.  A caller constructs a wrapper
\* once the loop thread of the one before has ended.
WrapperNew ==
    /\ w_pc \in { "none", "live" }
    /\ dbus_loop_thread # "running"
    /\ h_pc = "idle"
    /\ leases_dict' = LeaseListReset(EmptyDict)
    /\ watched_macaddr' = NoMac
    /\ got_lease_event' = FALSE
    /\ g_expected' = [k \in Keys |-> None]
    /\ serial_dict' = EmptyDict
    /\ dbus_loop' = "MainLoop"
    /\ wait_bus_owner_timeout' = WaitBusOwnerPolls
    /\ w_pc' = "await_owner"
    /\ w_subscribed' = FALSE
    /\ dbus_loop_thread' = "none"
    /\ owner_watch' = FALSE
    /\ getversion_call' = "none"
    /\ getversion_unlock_event' = FALSE
    /\ remote_version' = ""
    /\ loop_excs' = {}
    /\ w_result' = NoResult
    /\ UNCHANGED << leases_dict_mutex, bg_vars, fg_vars, h_hist, f_clean, f_seen,
                    sup_vars, lib_vars, bus_owner >>

\* Variant: the poll that gives up one sleep late.
PollsOver_OneMore(left) == left < 0

\* if wait_bus_owner_timeout <= 0
PollsOver(left) == left <= 0

\* The constructor fails: the exception leaves it and no object is returned.
\* What it has started stays as it is.
WrapperRaise(val, line) ==
    /\ w_pc' = "none"
    /\ w_result' = Raised("__init__", val, line)

\* One turn of the loop of lines 114-118: name_has_owner() is asked; without
\* an owner the constructor sleeps, counts the sleep and gives up at zero.
PollOwner ==
    /\ w_pc = "await_owner"
    /\ IF bus_owner
       THEN /\ w_pc' = "connect"
            /\ UNCHANGED << wait_bus_owner_timeout, w_result >>
       ELSE /\ wait_bus_owner_timeout' = wait_bus_owner_timeout - 1
            /\ IF PollsOver(wait_bus_owner_timeout')
               THEN WrapperRaise("No owner found for bus name", 118)
               ELSE UNCHANGED << w_pc, w_result >>
    /\ UNCHANGED << lease_vars, sup_vars, lib_vars, bus_owner, w_subscribed,
                    dbus_loop, dbus_loop_thread, owner_watch, getversion_call,
                    getversion_unlock_event, remote_version, loop_excs >>

\* Variant: a constructor that asks for the version before its loop runs.
StepAfter_LoopLast(pc) ==
    CASE pc = "await_owner" -> "connect"
      [] pc = "connect" -> "handshake"
      [] pc = "handshake" -> "run_loop"
      [] pc = "run_loop" -> "handshake_wait"
      [] pc = "handshake_wait" -> "ready"
      [] pc = "ready" -> "live"

\* The order of the constructor's statements: lines 114, 121, 146, 152, 157
\* and 162, then the return.
StepAfter(pc) ==
    CASE pc = "await_owner" -> "connect"
      [] pc = "connect" -> "run_loop"
      [] pc = "run_loop" -> "handshake"
      [] pc = "handshake" -> "handshake_wait"
      [] pc = "handshake_wait" -> "ready"
      [] pc = "ready" -> "live"

\* Lines 121-143: the proxy, the interface and the three connect_to_signal.
Connect ==
    /\ w_pc = "connect"
    /\ w_subscribed' = TRUE
    /\ w_pc' = StepAfter(w_pc)
    /\ UNCHANGED << lease_vars, sup_vars, lib_vars, bus_owner,
                    wait_bus_owner_timeout, dbus_loop, dbus_loop_thread,
                    owner_watch, getversion_call, getversion_unlock_event,
                    remote_version, loop_excs, w_result >>

\* Lines 146-150: the loop thread is started, then watch_name_owner installs
\* _handleBusOwnerChanged.
RunLoop ==
    /\ w_pc = "run_loop"
    /\ dbus_loop_thread' = "running"
    /\ dbus_loops' = dbus_loops + 1
    /\ owner_watch' = TRUE
    /\ w_pc' = StepAfter(w_pc)
    /\ UNCHANGED << lease_vars, sup_vars, lib_ifname, lib_lease_time,
                    slave_dhcp_process, dnsmasq_wrapper, c_pc, c_result,
                    bus_owner, wait_bus_owner_timeout, w_subscribed, dbus_loop,
                    getversion_call, getversion_unlock_event, remote_version,
                    loop_excs, w_result >>

\* Lines 152-156: the event is created and cleared, and GetVersion is called
\* with its two callbacks.
GetVersion ==
    /\ w_pc = "handshake"
    /\ getversion_unlock_event' = FALSE
    /\ remote_version' = ""
    /\ getversion_call' = "sent"
    /\ w_pc' = StepAfter(w_pc)
    /\ UNCHANGED << lease_vars, sup_vars, lib_vars, bus_owner,
                    wait_bus_owner_timeout, w_subscribed, dbus_loop,
                    dbus_loop_thread, owner_watch, loop_excs, w_result >>

\* _getVersionUnlock(return_value), the reply handler, run by the loop thread
\* when the owner of the name answers.
getVersionUnlock(return_value) ==
    /\ getversion_call = "sent"
    /\ LoopDispatches
    /\ bus_owner
    /\ remote_version' = return_value
    /\ getversion_unlock_event' = TRUE
    /\ getversion_call' = "answered"
    /\ UNCHANGED << lease_vars, sup_vars, lib_vars, bus_owner, w_pc,
                    wait_bus_owner_timeout, w_subscribed, dbus_loop,
                    dbus_loop_thread, owner_watch, loop_excs, w_result >>

\* An exception raised by a callback leaves the callback into dbus-python,
\* which logs it; the loop thread goes on.
LoopRaise(val) == loop_excs' = loop_excs \cup { val }

\* _getVersionError(remote_exception), the error handler, run by the loop
\* thread: it logs and raises, and does not set the event.
getVersionError ==
    /\ getversion_call = "sent"
    /\ LoopDispatches
    /\ LoopRaise("ErrorOnDBusGetVersion")
    /\ getversion_call' = "answered"
    /\ UNCHANGED << lease_vars, sup_vars, lib_vars, bus_owner, w_pc,
                    wait_bus_owner_timeout, w_subscribed, dbus_loop,
                    dbus_loop_thread, owner_watch, getversion_unlock_event,
                    remote_version, w_result >>

\* Lines 157-160: Event.wait(4) returns the flag, at once when it is set and
\* after 4 s when it is not.
HandshakeWait ==
    /\ w_pc = "handshake_wait"
    /\ IF getversion_unlock_event
       THEN w_pc' = StepAfter(w_pc) /\ UNCHANGED w_result
       ELSE WrapperRaise("TimeoutOnGetVersion", 158)
    /\ UNCHANGED << lease_vars, sup_vars, lib_vars, bus_owner,
                    wait_bus_owner_timeout, w_subscribed, dbus_loop,
                    dbus_loop_thread, owner_watch, getversion_call,
                    getversion_unlock_event, remote_version, loop_excs >>

\* Line 162: self.reset(), and the constructor returns.  A handler that has
\* loaded the dict keeps the one it loaded.
Ready ==
    /\ w_pc = "ready"
    /\ leases_dict' = LeaseListReset(leases_dict)
    /\ h_ref' = IF h_ref = "live" THEN "old" ELSE h_ref
    /\ h_old' = IF h_ref = "live" THEN leases_dict ELSE h_old
    /\ g_expected' = [k \in Keys |-> None]
    /\ serial_dict' = EmptyDict
    /\ w_pc' = StepAfter(w_pc)
    /\ w_result' = Returned("__init__", None, 162)
    /\ UNCHANGED << leases_dict_mutex, watched_macaddr, got_lease_event,
                    h_locals, h_outcome, fg_vars, h_hist, f_clean, f_seen,
                    sup_vars, lib_vars, bus_owner, wait_bus_owner_timeout,
                    w_subscribed, dbus_loop, dbus_loop_thread, owner_watch,
                    getversion_call, getversion_unlock_event, remote_version,
                    loop_excs >>

\* _handleBusOwnerChanged(new_owner), run by the loop thread: without an
\* owner it logs a warning and raises, else it does nothing.
handleBusOwnerChanged(new_owner) ==
    IF new_owner = ""
    THEN LoopRaise("LostDhcpSlave")
    ELSE UNCHANGED loop_excs

\* The owner of the bus name changes: dnsmasq takes the name or loses it.
\* The bus tells the connections that watch the name.
NameOwnerChanged(new_owner) ==
    /\ bus_owner = (new_owner = "")
    /\ bus_owner' = (new_owner # "")
    /\ IF owner_watch /\ dbus_loop_thread = "running"
       THEN handleBusOwnerChanged(new_owner)
       ELSE UNCHANGED loop_excs
    /\ UNCHANGED << lease_vars, sup_vars, lib_vars, w_pc, wait_bus_owner_timeout,
                    w_subscribed, dbus_loop, dbus_loop_thread, owner_watch,
                    getversion_call, getversion_unlock_event, remote_version,
                    w_result >>

\* exit(): self._dbus_iface is never None on a constructed wrapper; the main
\* loop is asked to quit and the attribute is set to None (lines 176-182).
\* The loop thread ends with the callback it is running.
exit ==
    /\ w_pc = "live"
    /\ dbus_loop_thread' = IF dbus_loop # None /\ dbus_loop_thread = "running"
                           THEN "ended" ELSE dbus_loop_thread
    /\ dbus_loops' = IF dbus_loop_thread' # dbus_loop_thread
                     THEN dbus_loops - 1 ELSE dbus_loops
    /\ dbus_loop' = None
    /\ w_result' = Returned("exit", None, 182)
    /\ UNCHANGED << lease_vars, sup_vars, lib_ifname, lib_lease_time,
                    slave_dhcp_process, dnsmasq_wrapper, c_pc, c_result,
                    bus_owner, w_pc, wait_bus_owner_timeout, w_subscribed,
                    owner_watch, getversion_call, getversion_unlock_event,
                    remote_version, loop_excs >>

\* getIpForMac(mac) called on the wrapper (lines 279-280).
WrapperGetIpForMac(mac) ==
    /\ w_pc = "live"
    /\ w_result' = Returned("getIpForMac", getIpForMac(leases_dict, mac), 280)
    /\ UNCHANGED << lease_vars, sup_vars, lib_vars, bus_owner, w_pc,
                    wait_bus_owner_timeout, w_subscribed, dbus_loop,
                    dbus_loop_thread, owner_watch, getversion_call,
                    getversion_unlock_event, remote_version, loop_excs >>

\* getLeasesList() called on the wrapper (line 271).
WrapperGetLeasesList ==
    /\ w_pc = "live"
    /\ w_result' = ReturnedList("getLeasesList", to_tuple_list(leases_dict), 271)
    /\ UNCHANGED << lease_vars, sup_vars, lib_vars, bus_owner, w_pc,
                    wait_bus_owner_timeout, w_subscribed, dbus_loop,
                    dbus_loop_thread, owner_watch, getversion_call,
                    getversion_unlock_event, remote_version, loop_excs >>

\* A lease signal reaches a handler that is connected, through a loop thread
\* that runs.
WrapperDeliver ==
    /\ w_subscribed
    /\ dbus_loop_thread = "running"
    /\ \E kind \in Kinds, ipaddr \in IPs, hwaddr \in RawMacs :
          Deliver(kind, ipaddr, hwaddr)

WrapNext ==
    \/ WrapperNew
    \/ PollOwner
    \/ Connect
    \/ RunLoop
    \/ GetVersion
    \/ getVersionUnlock(Version)
    \/ getVersionError
    \/ HandshakeWait
    \/ Ready
    \/ \E new_owner \in Owners : NameOwnerChanged(new_owner)
    \/ exit
    \/ \E mac \in RawMacs : WrapperGetIpForMac(mac)
    \/ WrapperGetLeasesList
    \/ WrapperDeliver
    \/ LoadDict
    \/ StoreLease
    \/ DeleteLease
    \/ CheckWatchedNone

\* No caller of this specification sets a watch: _watched_macaddr stays None
\* and a handler returns from its first test of it.
WrapSpec == LibInit /\ [][WrapNext]_vars

(***************************************************************************)
(* The check keywords on a library whose observer can be stopped: the      *)
(* handlers run as long as a wrapper is held; exit() quits the loop, and    *)
(* the handler that is running ends.                                       *)
(***************************************************************************)
KeywordDeliver ==
    /\ ~NoWrapper
    /\ \E kind \in Kinds, ipaddr \in IPs, hwaddr \in RawMacs :
          Deliver(kind, ipaddr, hwaddr)

\* stop_monitoring_server() called between two keywords.
KeywordStopMonitoring ==
    /\ f_pc = "idle"
    /\ stop_monitoring_server

KeywordNext ==
    \/ KeywordDeliver
    \/ LoadDict
    \/ StoreLease
    \/ DeleteLease
    \/ CheckWatchedNone
    \/ CheckWatchedMatch
    \/ SetEvent
    \/ \E kw \in CheckKeywords, mac \in RawMacs, timeout \in Timeouts :
          check_dhcp_client(kw, mac, timeout)
    \/ WaitLeaseCheck
    \/ WaitLeaseStore
    \/ Tick
    \/ WaitLeaseWake
    \/ KeywordStopMonitoring

KeywordSpec == Init /\ [][KeywordNext]_vars

(***************************************************************************)
(* The check keywords called without a timeout, once a lease time is set.  *)
(***************************************************************************)
\* Lease times in seconds: str(lease_time) of set_lease_time's argument.
NumericLeaseTimes == { "2", "3", "19", "20" }

\* set_lease_time(lease_time) called between two keywords.
KeywordSetLeaseTime(lease_time) ==
    /\ f_pc = "idle"
    /\ set_lease_time(lease_time)

TimeoutNext ==
    \/ \E lease_time \in NumericLeaseTimes : KeywordSetLeaseTime(lease_time)
    \/ \E kw \in CheckKeywords, mac \in RawMacs :
          check_dhcp_client(kw, mac, NoTimeout)
    \/ WaitLeaseCheck
    \/ WaitLeaseStore
    \/ Tick
    \/ WaitLeaseWake

TimeoutSpec == Init /\ [][TimeoutNext]_vars

(***************************************************************************)
(* Properties                                                              *)
(***************************************************************************)
\* No handler is between reading self.leases_dict and writing through it.
NoPendingWrite == h_ref # "live"

\* C1: once the handlers' writes are done, the lookup of a MAC address (in
\* any spelling) returns the IP address of the latest add or update for that
\* address that no delete for it and no reset followed, and None otherwise;
\* the table holds at most one entry per MAC address.
C1_LookupFollowsEvents ==
    /\ NoPendingWrite =>
          \A mac \in RawMacs :
              getIpForMac(leases_dict, mac) = g_expected[Lower(mac)]
    /\ \A k1, k2 \in DOMAIN leases_dict : Lower(k1) = Lower(k2) => k1 = k2
    /\ Cardinality(DOMAIN leases_dict) <= Cardinality(Keys)

\* An update has replaced the first address of one MAC and the other MAC has
\* no lease, and a lookup has returned the replacing address.
C1_Witness ==
    /\ h_pc = "idle"
    /\ g_expected = [k \in Keys |->
                       IF k = <<"a", "b">> THEN "192.168.0.131" ELSE None]
    /\ leases_dict = [k \in { <<"a", "b">> } |-> "192.168.0.131"]
    /\ f_result = Returned("find_ip_for_mac", "192.168.0.131", 768)

\* C2: whenever wait_lease has returned without failing, what it returned is
\* an IPv4 address (the one leased to the MAC address), whether the lease was
\* known at the call or arrived while the call was blocked.
C2_WaitLeaseReturnsAddress ==
    (f_result.op = "wait_lease" /\ f_result.out = "return") =>
        f_result.val \in IPs

\* The handler running in this step ends with it.
HandlerEnds == h_pc # "idle" /\ h_pc' = "idle"

\* The caller's setMacAddrToWatch ends with this step.
WatchEnds == InWatch /\ f_pc' \notin { "w_store", "m_store" }

\* C3: a handler of an add or update that no setMacAddrToWatch overlaps sets
\* the event if its MAC address is the watched one and leaves the event as it
\* found it otherwise; a setMacAddrToWatch that no handler overlaps leaves the
\* event cleared and its own MAC address as the only target.
C3_SingleTargetWatch ==
    [][ /\ (HandlerEnds /\ h_clean /\ h_kind # "DhcpLeaseDeleted") =>
              got_lease_event' =
                 (h_event0 \/ (watched_macaddr # NoMac
                               /\ watched_macaddr = Lower(h_hwaddr)))
        /\ (WatchEnds /\ f_clean) =>
              (~got_lease_event' /\ watched_macaddr' = Lower(f_mac))
      ]_vars

\* After watch(cd) has returned, an event for ab, the target before it, is
\* being handled and is about to end with the event still cleared.
C3_Witness ==
    /\ f_result = Returned("setMacAddrToWatch", None, 263)
    /\ watched_macaddr = <<"c", "d">>
    /\ h_pc = "chk_match"
    /\ h_hwaddr = <<"a", "b">>
    /\ h_clean
    /\ ~h_event0
    /\ ~got_lease_event

\* C4: a wait_lease that blocks ends (the clock runs the timeout out), and
\* it ends with the NoLeaseFound failure unless an add or update for its MAC
\* address was handled during the call.
C4_WaitEndsWithNoLeaseFound ==
    /\ (f_pc = "w_wait") ~> (f_pc = "idle")
    /\ [][ (f_pc = "w_wait" /\ f_pc' = "idle" /\ ~f_seen) =>
              f_result' = Raised("wait_lease", NoLeaseKnown, 849) ]_vars

\* C5: wait_lease without a timeout, or with one that is zero or negative,
\* and no lease known for the MAC address, fails with NoLeaseFound at once
\* and leaves the watch target and the event as they are.
C5_NoWaitFailsAtOnce ==
    [][ (f_pc = "w_check"
         /\ (f_timeout = NoTimeout \/ f_timeout[1] <= 0)
         /\ f_pc' # "w_check") =>
           /\ f_pc' = "idle"
           /\ f_result'.op = "wait_lease"
           /\ f_result'.out = "raise"
           /\ f_result'.val = NoLeaseKnown
           /\ watched_macaddr' = watched_macaddr
           /\ got_lease_event' = got_lease_event
      ]_vars

\* wait_lease(mac, 0) has failed at line 845 while a target was watched and
\* the event was set.
C5_Witness ==
    /\ f_result = Raised("wait_lease", NoLeaseKnown, 845)
    /\ watched_macaddr # NoMac
    /\ got_lease_event

\* C6: MAC addresses match whatever their case: the lookup of two spellings
\* of one address gives the same answer, a lease added under one spelling is
\* found under every other one, the stored target is the caller's address in
\* any case, and a handler whose address is the target's in another spelling
\* goes on to set the event.
C6_CaseInsensitive ==
    /\ [](\A m1, m2 \in RawMacs :
             Lower(m1) = Lower(m2) =>
                getIpForMac(leases_dict, m1) = getIpForMac(leases_dict, m2))
    /\ [](NoPendingWrite =>
             \A m \in RawMacs :
                g_expected[Lower(m)] # None => getIpForMac(leases_dict, m) # None)
    /\ [][ /\ WatchEnds => Lower(watched_macaddr') = Lower(f_mac)
           /\ (h_pc = "chk_match" /\ h_pc' # "chk_match"
               /\ Lower(watched_macaddr) = Lower(h_hwaddr)) => h_pc' = "set"
         ]_vars

\* A caller that waits for AB is about to be woken by the handler of an add
\* for that address, which the table holds under ab.
C6_Witness ==
    /\ f_pc = "w_wait"
    /\ f_mac = <<"A", "B">>
    /\ h_pc = "set"
    /\ h_hwaddr = <<"a", "b">>
    /\ <<"a", "b">> \in DOMAIN leases_dict

C8_ResetEmptiesTable ==
    [][ reset_lease_database =>
           /\ to_tuple_list(leases_dict') = {}
           /\ \A mac \in RawMacs : getIpForMac(leases_dict', mac) = None
      ]_vars

\* reset() has emptied a table that held leases (a handler still holds the
\* dict it replaced).
C8_Witness ==
    /\ f_result = Returned("reset_lease_database", None, 170)
    /\ h_ref = "old"
    /\ DOMAIN h_old # {}
    /\ leases_dict = EmptyDict

\* A step of the caller thread that reads or writes the lease mapping.
CallerAccess ==
    \/ reset_lease_database
    \/ getLeasesList
    \/ \E mac \in RawMacs : find_ip_for_mac(mac)
    \/ \E mac \in RawMacs, timeout \in Timeouts : WaitLeaseLookup(mac, timeout)

\* A step of the loop thread that reads or writes the lease mapping.
HandlerAccess == LoadDict \/ StoreLease \/ DeleteLease

\* C9: every read and every write of the lease mapping is made by a thread
\* that holds the table's lock.
C9_AccessUnderLock ==
    [][ /\ CallerAccess => leases_dict_mutex = "fg"
        /\ HandlerAccess => leases_dict_mutex = "bg" ]_vars

\* The supervisor is running: started, and every tracked PID alive.
Running ==
    /\ slave_dhcp_server_pid # NoPid
    /\ \A pid \in Range(all_processes_pid) : pid \in alive

\* C10: start() on a running supervisor fails with DhcpServerAlreadyStarted,
\* runs no external command and leaves the PID list and the daemon PID as
\* they are.
C10_StartWhileRunning ==
    [][ (StartStep /\ Running) =>
           /\ s_result' = Raised("start", "DhcpServerAlreadyStarted", 322)
           /\ s_cmds' = << >>
           /\ all_processes_pid' = all_processes_pid
           /\ slave_dhcp_server_pid' = slave_dhcp_server_pid
      ]_vars

\* The commands of the validation run and of the daemon's launch.
TestCmd == Cmd("dnsmasq --test", NoPid)
LaunchCmd == Cmd("dnsmasq", NoPid)

\* C11: in start() the validation run comes before the launch of the daemon;
\* when the validation run exits with a code other than zero, start() fails
\* with CalledProcessError, the daemon is not launched and start() tracks
\* no PID.
C11_ValidationBeforeLaunch ==
    [][ /\ (LaunchCmd \in Range(s_cmds') /\ StartStep) =>
              \E i, j \in DOMAIN s_cmds' :
                  i < j /\ s_cmds'[i] = TestCmd /\ s_cmds'[j] = LaunchCmd
        /\ \A p \in { q \in StartInputs : q[3] # 0 } :
              (TestCmd \in Range(s_cmds') /\ startWith(p)) =>
                  /\ s_result' = Raised("start", "CalledProcessError", 368)
                  /\ LaunchCmd \notin Range(s_cmds')
                  /\ alive' = alive
                  /\ all_processes_pid' = all_processes_pid
                  /\ slave_dhcp_server_pid' = slave_dhcp_server_pid
      ]_vars

\* start() has failed at the validation run, on a supervisor that tracks
\* nothing.
C11_Witness ==
    /\ s_result = Raised("start", "CalledProcessError", 368)
    /\ s_cmds = StartPrelude
    /\ all_processes_pid = << >>
    /\ alive = {}

\* C12: a launch that exits with 0 lets start() go on to the PID file, one
\* that exits with 2 makes it fail with DhcpPortAlreadyUsed, and one that
\* exits with another code makes it fail with SlaveFailed; a failed launch
\* tracks no PID, leaves the daemon PID as it was and leaves the supervisor
\* not running.
C12_LaunchOutcomes ==
    [][ \A p \in StartInputs :
           LET rc == p[4]
           IN  (LaunchCmd \in Range(s_cmds') /\ startWith(p)) =>
               /\ (rc = 0) => s_result'.line \in { 390, 393 }
               /\ (rc = 2) => s_result' = Raised("start", "DhcpPortAlreadyUsed", 380)
               /\ (rc \notin { 0, 2 }) => s_result' = Raised("start", "SlaveFailed", 383)
               /\ (rc # 0) =>
                     /\ all_processes_pid' = all_processes_pid
                     /\ slave_dhcp_server_pid' = slave_dhcp_server_pid
                     /\ (~hasBeenStarted => ~hasBeenStarted')
                     /\ ~isRunning'
      ]_vars

\* The launch has exited with 2 on a supervisor that was never started.
C12_Witness ==
    /\ s_result = Raised("start", "DhcpPortAlreadyUsed", 380)
    /\ LaunchCmd \in Range(s_cmds)
    /\ all_processes_pid = << >>
    /\ slave_dhcp_server_pid = NoPid

C14_KillClearsAndIsIdempotent ==
    [][ KillStep =>
           /\ Len(s_cmds') = Len(all_processes_pid)
           /\ \A i \in DOMAIN all_processes_pid :
                 s_cmds'[i] = Cmd("kill -SIGINT", all_processes_pid[i])
           /\ \A i, j \in DOMAIN s_cmds' : s_cmds'[i] = s_cmds'[j] => i = j
           /\ all_processes_pid' = << >>
           /\ slave_dhcp_server_pid' = NoPid
           /\ (s_result.op = "kill") =>
                 /\ s_cmds' = << >>
                 /\ all_processes_pid' = all_processes_pid
                 /\ slave_dhcp_server_pid' = slave_dhcp_server_pid
                 /\ alive' = alive
      ]_vars

\* kill() has signalled two tracked PIDs, the first of which lives on.
C14_Witness ==
    /\ s_result = Returned("kill", None, 459)
    /\ Len(s_cmds) = 2
    /\ s_cmds[1].pid \in alive
    /\ all_processes_pid = << >>
    /\ slave_dhcp_server_pid = NoPid

\* C15: kill() forces: a tracked process that SIGINT does not end is sent
\* SIGKILL once the timeout has run out, and is dead when kill() returns; a
\* process that SIGINT ends is sent no SIGKILL.
C15_KillEscalates ==
    [][ \A dying \in SUBSET Pids :
           kill(dying) =>
              \A pid \in Range(all_processes_pid) \cap alive :
                 IF pid \in dying
                 THEN Cmd("kill -SIGKILL", pid) \notin Range(s_cmds')
                 ELSE /\ Cmd("kill -SIGKILL", pid) \in Range(s_cmds')
                      /\ pid \notin alive'
      ]_vars

\* C16: killLastPid(signum) sends signum to the last PID of the list and to
\* no other, and leaves the list and the daemon PID as they are; on an empty
\* list it fails with NoChildPID and sends nothing.
C16_SignalLastPid ==
    [][ \A signum \in Signals, dies \in BOOLEAN :
           killLastPid(signum, dies) =>
              /\ IF all_processes_pid = << >>
                 THEN /\ s_result' = Raised("killLastPid", "NoChildPID", 441)
                      /\ s_cmds' = << >>
                 ELSE /\ s_result' = Returned("killLastPid", None, 445)
                      /\ s_cmds' = << Cmd("kill -" \o signum,
                                          all_processes_pid[Len(all_processes_pid)]) >>
              /\ all_processes_pid' = all_processes_pid
              /\ slave_dhcp_server_pid' = slave_dhcp_server_pid
      ]_vars

\* SIGHUP has gone to the second of two tracked PIDs.
C16_Witness ==
    /\ s_result = Returned("killLastPid", None, 445)
    /\ all_processes_pid = << 1, 2 >>
    /\ s_cmds = << Cmd("kill -SIGHUP", 2) >>

\* C17: isRunning() returns True exactly when the supervisor has been
\* started and every tracked PID is the PID of a living process.
C17_IsRunningIffAllAlive ==
    [][ IsRunning =>
           ((s_result'.val = "True") <=> Running) ]_vars

\* C18: the list of tracked PIDs never holds a PID twice.
C18_NoDuplicatePid ==
    \A i, j \in DOMAIN all_processes_pid :
        all_processes_pid[i] = all_processes_pid[j] => i = j

\* addSlavePid(2) has been called on a supervisor that tracked 2 already
\* (the daemon PID is in the list before and after the call).
C18_Witness ==
    /\ s_result = Returned("addSlavePid", None, 401)
    /\ slave_dhcp_server_pid = 2
    /\ all_processes_pid = << 2 >>

\* C19: between the supervisor's operations the daemon PID, when set, is in
\* the list of tracked PIDs, and a kill() that clears the list leaves the
\* daemon PID unset.
C19_DaemonPidIsTracked ==
    /\ [](slave_dhcp_server_pid # NoPid =>
             slave_dhcp_server_pid \in Range(all_processes_pid))
    /\ [][ KillStep =>
              (all_processes_pid' = << >> /\ slave_dhcp_server_pid' = NoPid) ]_vars

\* The daemon PID is tracked next to a PID that addSlavePid added before.
C19_Witness ==
    /\ slave_dhcp_server_pid = 2
    /\ all_processes_pid = << 1, 2 >>
    /\ s_result = Returned("start", None, 393)

\* C20: the keyword start, called while the library holds a supervisor,
\* fails with DhcpServerAlreadyStarted; it launches nothing, constructs no
\* wrapper and leaves the interface and the lease time as they are.
C20_StartWhileHeld ==
    [][ \A ifname \in IfNames \cup { None }, lease_time \in LeaseTimes \cup { None } :
           (lib_start(ifname, lease_time) /\ slave_dhcp_process # None) =>
              /\ c_result' = Raised("start", "DhcpServerAlreadyStarted", 661)
              /\ c_pc' = "idle"
              /\ UNCHANGED << sup_vars, dnsmasq_wrapper, dbus_loops,
                              slave_dhcp_process, lib_ifname, lib_lease_time >>
      ]_vars

\* The keyword start has been refused while the daemon that an earlier start
\* launched on eth0 runs and is observed.
C20_Witness ==
    /\ c_result = Raised("start", "DhcpServerAlreadyStarted", 661)
    /\ slave_dhcp_process # None
    /\ dnsmasq_wrapper # None
    /\ slave_dhcp_server_pid \in alive
    /\ lib_ifname = "eth0"

(***************************************************************************)
(* The wrapper's startup and teardown (WrapSpec)                           *)
(***************************************************************************)
\* C21: the constructor asks for the owner of the bus name a bounded number
\* of times.  A poll that sees an owner lets the constructor go on to connect
\* the handlers; a poll that sees none costs one of the sleeps, and the last
\* of them fails the constructor with 'No owner found for bus name', with no
\* handler connected and no loop thread started.
C21_BoundedOwnerPoll ==
    [][ PollOwner =>
          /\ wait_bus_owner_timeout \in 1 .. WaitBusOwnerPolls
          /\ ~w_subscribed /\ dbus_loop_thread = "none"
          /\ IF bus_owner
             THEN w_pc' = "connect" /\ w_result' = w_result
             ELSE IF wait_bus_owner_timeout = 1
             THEN /\ w_pc' = "none"
                  /\ w_result' = Raised("__init__", "No owner found for bus name", 118)
                  /\ ~w_subscribed' /\ dbus_loop_thread' = "none"
             ELSE /\ w_pc' = "await_owner"
                  /\ wait_bus_owner_timeout' = wait_bus_owner_timeout - 1
      ]_vars

\* The constructor has given up on a name that has no owner.
C21_Witness ==
    /\ w_pc = "none"
    /\ w_result = Raised("__init__", "No owner found for bus name", 118)
    /\ ~bus_owner
    /\ wait_bus_owner_timeout = 0

StartupOrder ==
    << "await_owner", "connect", "run_loop", "handshake", "handshake_wait",
       "ready", "live" >>

\* C23: the constructor moves through its steps in one order, each entered
\* from the one before it and only when that one has succeeded: the handlers
\* are connected once an owner was seen, the loop thread is started once they
\* are connected, the version is asked for once the loop runs, the table is
\* cleared once the reply has come.  A step that fails ends the constructor;
\* none is entered again.  The table is empty when the constructor returns.
C23_LinearStartup ==
    [][ w_pc' # w_pc =>
          /\ \/ w_pc \in { "await_owner", "handshake_wait" } /\ w_pc' = "none"
             \/ w_pc \in { "none", "live" } /\ w_pc' = "await_owner"
             \/ \E i \in 1 .. (Len(StartupOrder) - 1) :
                   w_pc = StartupOrder[i] /\ w_pc' = StartupOrder[i + 1]
          /\ w_pc' = "await_owner" => ~w_subscribed' /\ dbus_loop_thread' = "none"
          /\ w_pc' = "connect" => bus_owner /\ ~w_subscribed'
          /\ w_pc' = "run_loop" => w_subscribed' /\ dbus_loop_thread' = "none"
          /\ w_pc' = "handshake" =>
                w_subscribed' /\ dbus_loop_thread' = "running"
                   /\ getversion_call' = "none"
          /\ w_pc' = "ready" =>
                getversion_unlock_event' /\ remote_version' = Version
                   /\ getversion_call' = "answered"
          /\ w_pc' = "live" =>
                /\ w_pc = "ready"
                /\ leases_dict' = EmptyDict
                /\ getversion_unlock_event' /\ dbus_loop_thread' = "running"
                /\ w_result' = Returned("__init__", None, 162)
      ]_vars

\* The constructor has returned with an empty table while a handler that ran
\* during the handshake still holds the dict it loaded.
C23_Witness ==
    /\ w_pc = "live"
    /\ w_result = Returned("__init__", None, 162)
    /\ leases_dict = EmptyDict
    /\ h_ref = "old"

\* The queries of the wrapper.
Queries == { "getIpForMac", "getLeasesList" }

\* C24: a query made on a wrapper after exit() fails with NotConnected.
C24_QueryAfterExit ==
    (w_pc = "live" /\ dbus_loop = None /\ w_result.op \in Queries) =>
        w_result = Raised(w_result.op, "NotConnected", w_result.line)

\* C25: once the bus has told a live wrapper that the name has no owner, the
\* wrapper is in a fatal state that its caller sees: the queries fail.  A
\* change to another owner changes nothing of the wrapper.
C25_OwnerLostIsSurfaced ==
    [][ /\ ( /\ "LostDhcpSlave" \in loop_excs
             /\ w_pc = "live"
             /\ \/ \E mac \in RawMacs : WrapperGetIpForMac(mac)
                \/ WrapperGetLeasesList ) =>
               w_result' = Raised(w_result'.op, "LostDhcpSlave", 253)
        /\ (\E new_owner \in Owners \ { "" } : NameOwnerChanged(new_owner)) =>
               UNCHANGED << lease_vars, w_pc, w_subscribed, dbus_loop,
                            dbus_loop_thread, loop_excs, w_result >>
      ]_vars

(***************************************************************************)
(* The keywords on the lease table                                         *)
(***************************************************************************)
\* C26: reset_lease_database() on a library that observes the daemon it has
\* started empties the table and sends SIGHUP to the daemon, which announces
\* its leases again.
C26_ResetReannounces ==
    [][ (reset_lease_database /\ ~NoWrapper /\ slave_dhcp_process # None
           /\ all_processes_pid # << >>) =>
          /\ leases_dict' = EmptyDict
          /\ Cmd("kill -SIGHUP", LastPid(all_processes_pid)) \in Range(s_cmds')
      ]_vars

\* A step of the handler of the signal kind.
HandlerStepOf(kind) == h_pc' # h_pc /\ (h_kind = kind \/ h_kind' = kind)

\* C27: no step of the handler of DhcpLeaseDeleted changes the watched
\* address or the event, whatever its MAC address; the handler never reaches
\* the tests of the watch.
C27_DeleteLeavesWatch ==
    [][ /\ HandlerStepOf("DhcpLeaseDeleted") =>
              UNCHANGED << watched_macaddr, got_lease_event >>
        /\ h_kind' = "DhcpLeaseDeleted" => h_pc' \in { "load", "store" }
      ]_vars

\* The handler of a DhcpLeaseDeleted for the watched address is about to
\* delete, and the event the waiter waits on is clear.
C27_Witness ==
    /\ h_kind = "DhcpLeaseDeleted"
    /\ h_pc = "store"
    /\ f_pc = "w_wait"
    /\ watched_macaddr = h_hwaddr
    /\ ~got_lease_event

\* C28, as claimed: at the step at which a handler sets the event, the table
\* maps the handler's MAC address to its IP address.
C28_TableMapsAtNotify ==
    [][ SetEvent => getIpForMac(leases_dict, h_hwaddr) = h_ipaddr ]_vars

\* C28, amended: a handler sets the event only once its addLease() has
\* returned and the lock is released; at that step the table maps the
\* handler's MAC address to its IP address unless reset() has emptied the
\* table since the handler read it.
C28_TableBeforeNotify ==
    [][ SetEvent =>
          /\ h_ref = "none"
          /\ leases_dict_mutex = "free"
          /\ g_expected[h_hwaddr] = h_ipaddr =>
                getIpForMac(leases_dict, h_hwaddr) = h_ipaddr
      ]_vars

\* A handler has set the event for the watched address, and the table maps
\* the address to the IP address of its signal.
C28_Witness ==
    /\ h_pc = "idle"
    /\ got_lease_event
    /\ watched_macaddr # NoMac
    /\ g_expected[watched_macaddr] # None
    /\ getIpForMac(leases_dict, watched_macaddr) = g_expected[watched_macaddr]

\* C29: the lock of the table is held only by a handler inside a table
\* method, never by a caller, never by a handler at the tests of the watch or
\* at Event.set(), and never while its holder waits; a handler that has
\* begun can take its next step and a caller inside a call can take its next
\* step, whatever the other thread is doing.
C29_NoDeadlock ==
    /\ leases_dict_mutex # "fg"
    /\ leases_dict_mutex = "bg" <=> h_pc \in { "load", "store" }
    /\ h_pc # "idle" =>
          ENABLED (LoadDict \/ StoreLease \/ DeleteLease \/ CheckWatchedNone
                      \/ CheckWatchedMatch \/ SetEvent)
    /\ f_pc # "idle" =>
          ENABLED (WatchStore \/ WaitLeaseCheck \/ WaitLeaseStore \/ Tick
                      \/ WaitLeaseWake)

\* A handler holds the lock of the table while the caller waits on the event
\* for the address of the handler's signal.
C29_Witness ==
    /\ leases_dict_mutex = "bg"
    /\ f_pc = "w_wait"
    /\ f_left > 0
    /\ h_hwaddr = watched_macaddr


\* C30: check_dhcp_client_off succeeds exactly when the wait for a lease of
\* the MAC address ended with no lease found within the timeout: it fails
\* with 'Existing lease for' when a lease was known or arrived, and a wait
\* that failed for another reason is not reported as the client being off.
C30_OffOnlyWhenNoLeaseFound ==
    [][ /\ \A mac \in RawMacs, timeout \in Timeouts :
             check_dhcp_client("check_dhcp_client_off", mac, timeout) /\ f_pc' = "idle"
                 => f_result'.out = "raise"
        /\ f_kw = "check_dhcp_client_off" /\ WaitLeaseCheck /\ f_pc' = "idle"
              => f_result' = Returned("check_dhcp_client_off", None, 821)
        /\ f_kw = "check_dhcp_client_off" /\ WaitLeaseWake
              => f_result' = IF got_lease_event
                             THEN Raised("check_dhcp_client_off", "Existing lease for", 822)
                             ELSE Returned("check_dhcp_client_off", None, 821)
      ]_vars

\* C31: a check keyword called without a timeout, with a numeric lease time L
\* set, waits for the integer part of 1.1 * L / 2: half the lease time
\* increased by the 10% margin.
C31_DefaultTimeoutHasMargin ==
    [][ \A kw \in CheckKeywords, mac \in RawMacs :
            /\ lib_lease_time # None
            /\ check_dhcp_client(kw, mac, NoTimeout)
            /\ f_pc' = "w_check"
            => f_timeout' = << (11 * LeaseSeconds(lib_lease_time)) \div 20 >>
      ]_vars


\* C32: a wait_lease(mac, t) with t > 0 during which an add or update for mac
\* was handled - from the start of the call on, the time between the lookup
\* and the arming of the watch included - does not fail with NoLeaseFound.
C32_NoLostWakeup ==
    [][ (f_pc = "w_wait" /\ f_pc' = "idle" /\ f_seen /\ h_pc = "idle") =>
           f_result'.out # "raise" ]_vars


\* C33: once wait_lease's setMacAddrToWatch(A) has returned, the event is set
\* only if an add or update for A was handled since the call began; an event
\* for the target watched before, handled between the clearing of the event
\* and the storing of A, does not leave the event set for A's waiter.
C33_NoSpuriousWakeup ==
    (f_pc = "w_wait" /\ got_lease_event) => f_seen


\* C34: the table's operations are linearizable under every interleaving of
\* the handlers' put and remove with the caller's reset, get and snapshot:
\* each takes effect at one point between its call and its return (a put or
\* remove at its store, or just before the reset that replaced the dict it
\* had loaded), every get and snapshot returns what the operations before it
\* in that order leave, and a put that loaded the dict after the last reset
\* is in the table when it returns.
C34_Linearizable ==
    /\ [](leases_dict = serial_dict)
    /\ [][ /\ (f_pc = "idle" /\ f_result'.op = "find_ip_for_mac") =>
                \A mac \in RawMacs :
                    find_ip_for_mac(mac) =>
                        f_result'.val = SerialGet(serial_dict, Lower(mac))
           /\ (f_pc = "idle" /\ f_result'.op = "getLeasesList" /\ getLeasesList) =>
                f_result'.items = SerialSnapshot(serial_dict)
           /\ (f_pc = "idle" /\ f_result'.op = "reset_lease_database"
               /\ reset_lease_database) =>
                /\ \A mac \in RawMacs : getIpForMac(leases_dict', mac) = None
                /\ h_ref' # "live"
           /\ (h_pc = "store" /\ h_ref = "live" /\ StoreLease) =>
                getIpForMac(leases_dict', h_hwaddr) = h_ipaddr
           /\ (h_pc = "store" /\ h_ref = "live" /\ DeleteLease) =>
                getIpForMac(leases_dict', h_hwaddr) = None
           /\ (h_pc = "store" /\ h_ref = "old" /\ (StoreLease \/ DeleteLease)) =>
                leases_dict' = leases_dict
      ]_vars

\* A reset ran while a put held the dict it had loaded, and a get after the
\* reset returned None for the put's MAC address, which a lease had before.
C34_Witness ==
    /\ h_pc = "store"
    /\ h_ref = "old"
    /\ h_kind = "DhcpLeaseUpdated"
    /\ h_hwaddr \in DOMAIN h_old
    /\ leases_dict = EmptyDict
    /\ f_result = Returned("find_ip_for_mac", None, 768)


\* The supervisor as start(), kill() and isRunning() use it: every PID it
\* tracks is one that start() read from the PID file.
DaemonNext ==
    \/ StartStep
    \/ KillStep
    \/ IsRunning
    \/ \E pid \in Pids : ProcessExit(pid)

DaemonSpec == Init /\ [][DaemonNext]_vars

\* C35: after a successful start(), isRunning() is true as long as the daemon
\* whose PID start() read from the PID file is alive, also when start() was
\* called again after an earlier daemon exited without kill().  (No tracked
\* process is one the caller may not signal.)
C35_RunningWhileDaemonAlive ==
    [][ (IsRunning
         /\ slave_dhcp_server_pid \in alive
         /\ Range(all_processes_pid) \cap denied = {}) =>
           s_result'.val = "True" ]_vars


\* C36: a start keyword that failed in the supervisor's start() or in the
\* wrapper's constructor leaves the library not started: the start keyword
\* called next is not refused with DhcpServerAlreadyStarted.
C36_FailedStartIsNotStarted ==
    [][ (c_pc = "idle"
         /\ c_result.op = "start"
         /\ c_result.out = "raise"
         /\ c_result.val # "DhcpServerAlreadyStarted") =>
           \A ifname \in IfNames \cup { None }, lease_time \in LeaseTimes \cup { None } :
               lib_start(ifname, lease_time) =>
                   c_result'.val # "DhcpServerAlreadyStarted"
      ]_vars


\* C37: at most one observer is active for the library: a
\* restart_monitoring_server that constructs a wrapper while the library holds
\* one, whose loop is the only one running, leaves one loop running, not two.
C37_OneObserver ==
    [][ (dnsmasq_wrapper # None /\ dbus_loops = 1) =>
           \A ifname \in IfNames \cup { None } :
               restart_monitoring_server(ifname, "ok") => dbus_loops' = 1
      ]_vars


\* The constructor has failed at the handshake (the answer did not come, or
\* the error callback ran: both end at line 158).
HandshakeFailed == w_pc = "none" /\ w_result = Raised("__init__", "TimeoutOnGetVersion", 158)

\* C38: once the constructor has failed at the handshake, the loop thread it
\* started is not running and no handler of that wrapper is run any more.
C38_FailedHandshakeStopsLoop ==
    /\ [](HandshakeFailed => dbus_loop_thread # "running")
    /\ [][ HandshakeFailed => ~WrapperDeliver ]_vars


\* The library's state apart from the outcome of the last keyword.
LibraryState ==
    << lib_ifname, lib_lease_time, slave_dhcp_process, dnsmasq_wrapper, dbus_loops,
       sup_vars, lease_vars, wrap_vars >>

\* C39: stop() has dropped the wrapper before it signals the daemon; when it
\* returns the library holds neither a wrapper nor a supervisor, and the start
\* keyword called next is not refused as already started; stop() on a library
\* that holds neither raises nothing, runs no command and changes no state.
C39_StopOrderAndIdempotence ==
    [][ /\ c_pc = "stop_kill" =>
              \A dying \in SUBSET Pids :
                  stop_kill(dying) =>
                      /\ dnsmasq_wrapper = None
                      /\ \A i \in DOMAIN s_cmds' : s_cmds'[i].cmd = "kill -SIGINT"
        /\ (c_pc' = "idle" /\ c_result'.op = "stop" /\ (stop \/ c_pc = "stop_kill")) =>
              /\ c_result' = Returned("stop", None, 733)
              /\ dnsmasq_wrapper' = None
              /\ slave_dhcp_process' = None
        /\ (c_pc = "idle" /\ slave_dhcp_process = None /\ dnsmasq_wrapper = None
            /\ stop) =>
              /\ c_result' = Returned("stop", None, 733)
              /\ LibraryState' = LibraryState
        /\ (c_pc = "idle" /\ c_result = Returned("stop", None, 733)) =>
              \A ifname \in IfNames \cup { None }, lease_time \in LeaseTimes \cup { None } :
                  lib_start(ifname, lease_time) =>
                      c_result'.val # "DhcpServerAlreadyStarted"
      ]_vars

\* stop() has returned after it dropped a wrapper and sent SIGINT to the
\* daemon it had started.
C39_Witness ==
    /\ c_result = Returned("stop", None, 733)
    /\ s_result = Returned("kill", None, 459)
    /\ s_cmds # << >>
    /\ dnsmasq_wrapper = None
    /\ slave_dhcp_process = None
    /\ dbus_loops = 0
    /\ lib_ifname = "eth0"


\* restart_monitoring_server is about to send SIGHUP.
AtSighup == c_pc \in { "start_sighup", "restart_sighup" }

\* C40: restart_monitoring_server (and so the start keyword) sends SIGHUP to
\* the daemon only once the wrapper's constructor has returned, its reset of
\* the table included: the signal's step finds the wrapper held and leaves
\* the table alone, and the constructor's step runs no command; without a
\* supervisor held, or without a wrapper constructed, no signal is sent.
C40_SighupAfterReady ==
    [][ /\ AtSighup =>
              \A dies \in BOOLEAN :
                  restart_monitoring_sighup(dies) =>
                      /\ dnsmasq_wrapper # None
                      /\ slave_dhcp_process # None
                      /\ leases_dict' = leases_dict
                      /\ IF all_processes_pid = << >>
                         THEN s_result' = Raised("killLastPid", "NoChildPID", 441)
                         ELSE s_cmds' = << Cmd("kill -SIGHUP", LastPid(all_processes_pid)) >>
        /\ c_pc \in { "idle", "monitor" } =>
              \A ifname \in IfNames \cup { None }, outcome \in WrapperOutcomes :
                  restart_monitoring_server(ifname, outcome) =>
                      /\ s_cmds' = s_cmds
                      /\ AtSighup' =>
                            /\ slave_dhcp_process # None
                            /\ outcome = "ok"
                            /\ dnsmasq_wrapper' # None
                            /\ leases_dict' = EmptyDict
                      /\ (slave_dhcp_process = None \/ outcome # "ok") => c_pc' = "idle"
      ]_vars

\* restart_monitoring_server has sent SIGHUP to the daemon, PID 1, after the
\* wrapper was constructed.
C40_Witness ==
    /\ c_result = Returned("restart_monitoring_server", None, 698)
    /\ s_cmds = << Cmd("kill -SIGHUP", 1) >>
    /\ dnsmasq_wrapper # None
    /\ slave_dhcp_process # None
    /\ leases_dict = EmptyDict

====
